---- MODULE Spec2Model ----
(***************************************************************************)
(* State-machine model of the VirtualDate page component                   *)
(* (src/src/app/page.tsx) and of the flows it calls.                       *)
(*                                                                         *)
(* A text is a sequence of symbols.  What the user types is spelled one    *)
(* character per symbol, so that trim, toLowerCase, split, includes and    *)
(* startsWith are computed as JavaScript computes them.  A fixed literal   *)
(* of the program, or a text written by the language model, is a single    *)
(* symbol: the program never looks inside those.                           *)
(*                                                                         *)
(* An optional value (T | null | undefined) is <<>> or <<v>>.              *)
(*                                                                         *)
(* React semantics: a handler reads the state of the render it was created *)
(* in (its closure) and queues its writes; addMessage is a functional      *)
(* update that appends to the current transcript.  A handler is modelled   *)
(* by the action that runs it up to its first await and, when it awaits,   *)
(* by a task in `tasks` that holds the closure; the matching Resolve       *)
(* action draws the outcome of every external call the handler still makes *)
(* and runs it to its end.                                                 *)
(***************************************************************************)
EXTENDS Naturals, Sequences, FiniteSets, TLC

VARIABLES
    storage,                 \* window.localStorage[LOCAL_STORAGE_SETTINGS_KEY]
    appSettings,             \* the Profile: <<>> (null) or <<settings>>
    messages,                \* the transcript
    isInitializing,
    isAiResponding,
    isGeneratingSelfie,
    isGeneratingPhotoshoot,
    clientSetupStep,
    setupVisualPhase,
    settingsDraft,
    appearanceOptions,
    pendingProactiveSelfie,  \* <<>> (null) or <<[context |-> c]>>
    tasks,                   \* handlers suspended at an await, with their closures
    effectDue,               \* the greeting effect's dependencies changed in the last render
    calls,                   \* external calls issued by the handler that ran last
    toasts,                  \* toast notices raised by the handler that ran last
    last,                    \* which handler ran last, on what input, along which branch
    ops,                     \* number of user operations so far (bounded by MaxOps)
    run,                     \* what the user did since the wizard last started over
    keyboard                 \* the texts this user types

vars == <<storage, appSettings, messages, isInitializing, isAiResponding,
          isGeneratingSelfie, isGeneratingPhotoshoot, clientSetupStep,
          setupVisualPhase, settingsDraft, appearanceOptions,
          pendingProactiveSelfie, tasks, effectDue, calls, toasts, last, ops, run,
          keyboard>>

----------------------------------------------------------------------------
(* Bounds of the model *)

\* user operations (submissions, clicks, picks) in one behaviour
MaxOps == 6

\* transcript length above which no further message is submitted during the wizard
MaxMsgs == 12

\* transcript length above which no further message is submitted once chatting
MaxChatMsgs == 4

\* handlers suspended at an await at the same time
MaxTasks == 2

----------------------------------------------------------------------------
(* Texts *)

None == <<>>
Some(v) == <<v>>

\* A program literal or a generated text: one symbol.
Lit(s) == <<s>>

UpperCase == <<"A","B","C","D","E","F","G","H","I","J","K","L","M",
               "N","O","P","Q","R","S","T","U","V","W","X","Y","Z">>
LowerCase == <<"a","b","c","d","e","f","g","h","i","j","k","l","m",
               "n","o","p","q","r","s","t","u","v","w","x","y","z">>

\* String.prototype.toLowerCase, one character
LowerChar(c) ==
    IF \E i \in 1..Len(UpperCase) : UpperCase[i] = c
    THEN LowerCase[CHOOSE i \in 1..Len(UpperCase) : UpperCase[i] = c]
    ELSE c

\* String.prototype.toLowerCase
ToLowerCase(s) == [i \in 1..Len(s) |-> LowerChar(s[i])]

\* the characters \s matches, among those the model types
WhiteSpace == {" ", "\t", "\n"}

\* String.prototype.trim
RECURSIVE TrimStart(_)
TrimStart(s) ==
    IF s # <<>> /\ Head(s) \in WhiteSpace THEN TrimStart(Tail(s)) ELSE s

RECURSIVE TrimEnd(_)
TrimEnd(s) ==
    IF s # <<>> /\ s[Len(s)] \in WhiteSpace
    THEN TrimEnd(SubSeq(s, 1, Len(s) - 1))
    ELSE s

Trim(s) == TrimEnd(TrimStart(s))

\* String.prototype.startsWith
StartsWith(s, p) == Len(p) <= Len(s) /\ SubSeq(s, 1, Len(p)) = p

\* String.prototype.includes
Includes(s, p) ==
    \E i \in 0..Len(s) : i + Len(p) <= Len(s) /\ SubSeq(s, i + 1, i + Len(p)) = p

\* String.prototype.substring(n)
Substring(s, n) == SubSeq(s, n + 1, Len(s))

\* the separator class of /[\s,.;!?]+/
Separators == WhiteSpace \cup {",", ".", ";", "!", "?"}

\* String.prototype.split(/[\s,.;!?]+/): the pieces between maximal runs of
\* separators; a leading or trailing run leaves an empty piece, as in JavaScript.
RECURSIVE SplitFrom(_, _, _)
SplitFrom(s, piece, inRun) ==
    IF s = <<>> THEN <<piece>>
    ELSE IF Head(s) \in Separators
         THEN IF inRun THEN SplitFrom(Tail(s), piece, TRUE)
                       ELSE <<piece>> \o SplitFrom(Tail(s), <<>>, TRUE)
         ELSE SplitFrom(Tail(s), Append(piece, Head(s)), FALSE)

SplitWords(s) == SplitFrom(s, <<>>, FALSE)

\* Array.prototype.includes
ArrayIncludes(arr, v) == \E i \in 1..Len(arr) : arr[i] = v

\* Array.prototype.slice(-from, -to); to = 0 stands for slice(-from)
SliceFromEnd(arr, from, to) ==
    LET n == Len(arr)
        lo == IF n >= from THEN n - from ELSE 0
        hi == IF n >= to THEN n - to ELSE 0
    IN  SubSeq(arr, lo + 1, hi)

\* what the user's keyboard spells
Chars(str) ==
    CASE str = "yes" -> <<"y","e","s">>
      [] str = "no" -> <<"n","o">>
      [] str = " /Start " -> <<" ","/","S","t","a","r","t"," ">>
      [] str = "/start" -> <<"/","s","t","a","r","t">>
      [] str = "/voice" -> <<"/","v","o","i","c","e">>
      [] str = "/repeat" -> <<"/","r","e","p","e","a","t">>
      [] str = "/photo " -> <<"/","p","h","o","t","o"," ">>
      [] str = "/photo yes" -> <<"/","p","h","o","t","o"," ","y","e","s">>
      [] str = "ok" -> <<"o","k">>
      [] str = "sure" -> <<"s","u","r","e">>
      [] str = "yep" -> <<"y","e","p">>
      [] str = "please" -> <<"p","l","e","a","s","e">>
      [] str = "ja" -> <<"j","a">>
      [] str = "si" -> <<"s","i">>
      [] str = "okey" -> <<"o","k","e","y">>
      [] str = "okay" -> <<"o","k","a","y">>
      [] str = "fine" -> <<"f","i","n","e">>
      [] str = "alright" -> <<"a","l","r","i","g","h","t">>
      [] str = "sounds good" -> <<"s","o","u","n","d","s"," ","g","o","o","d">>
      [] str = "customize" -> <<"c","u","s","t","o","m","i","z","e">>
      [] str = "choose" -> <<"c","h","o","o","s","e">>
      [] str = "not" -> <<"n","o","t">>
      [] str = "don't" -> <<"d","o","n","'","t">>
      [] str = "nein" -> <<"n","e","i","n">>
      [] str = "non" -> <<"n","o","n">>
      [] str = "nah" -> <<"n","a","h">>
      [] str = "nope" -> <<"n","o","p","e">>
      [] str = "skip" -> <<"s","k","i","p">>
      [] str = "yes no" -> <<"y","e","s"," ","n","o">>
      [] str = "/photo" -> <<"/","p","h","o","t","o">>
      [] str = "/help" -> <<"/","h","e","l","p">>
      [] str = "ok now" -> <<"o","k"," ","n","o","w">>
      [] str = "/photo data:image/png;base64,QQ" ->
            <<"/","p","h","o","t","o"," ","d","a","t","a",":","i","m","a","g","e","/",
              "p","n","g",";","b","a","s","e","6","4",",","Q","Q">>
      [] str = "data:image/png;base64,QQ" ->
            <<"d","a","t","a",":","i","m","a","g","e","/",
              "p","n","g",";","b","a","s","e","6","4",",","Q","Q">>

----------------------------------------------------------------------------
(* src/src/lib/constants.ts *)

DEFAULT_USERNAME == Lit("My Love")
DEFAULT_PERSONALITY_TRAITS == Lit("friendly, caring, humorous, supportive, and a bit playful")
DEFAULT_TOPIC_PREFERENCES == Lit("movies, music, hobbies, daily life, dreams, and technology")
DEFAULT_APPEARANCE_DESCRIPTION == Lit("A kind and beautiful young woman ...")
DEFAULT_SELECTED_VOICE_NAME == None

\* selectedAvatarDataUri is not a key of the default draft (undefined)
DEFAULT_SETTINGS_DRAFT ==
    [ userName |-> DEFAULT_USERNAME,
      personalityTraits |-> DEFAULT_PERSONALITY_TRAITS,
      topicPreferences |-> DEFAULT_TOPIC_PREFERENCES,
      appearanceDescription |-> DEFAULT_APPEARANCE_DESCRIPTION,
      selectedVoiceName |-> DEFAULT_SELECTED_VOICE_NAME,
      selectedAvatarDataUri |-> None,
      autoPlayAiMessages |-> FALSE ]

\* a transcript entry; id and timestamp are not modelled (nothing reads them)
Msg(sender, text, imageUrl) == [sender |-> sender, text |-> text, imageUrl |-> imageUrl]
UserText(t) == Msg("user", t, <<>>)
AiText(t) == Msg("ai", t, <<>>)
AiImage(u) == Msg("ai", <<>>, u)

----------------------------------------------------------------------------
(* Keyword lists of handleSendMessage.  The source spells the non-English   *)
(* keywords with characters outside ASCII; each is one symbol here, which   *)
(* no typed ASCII text contains.                                            *)

affirmativeKeywords ==
    << Chars("yes"), Chars("sure"), Chars("ok"), Lit("<ru:da>"), Lit("<ru:aga>"),
       Lit("<ru:konechno>"), Lit("<ru:davai>"), Chars("please"), Chars("yep"),
       Chars("ja"), Chars("si"), Lit("<ru:hochu>"), Lit("<ru:pokazhi>"),
       Lit("<ru:valyai>"), Lit("<ru:go>"), Chars("okey"), Chars("okay"),
       Chars("fine"), Chars("alright"), Chars("sounds good"), Lit("<ru:horosho>"),
       Lit("<ru:ladno>"), Lit("<ru:soglasen>"), Lit("<ru:soglasna>") >>

negativeKeywords ==
    << Chars("no"), Chars("not"), Chars("don't"), Lit("<ru:net>"), Lit("<ru:ne nado>"),
       Lit("<ru:ne hochu>"), Chars("nein"), Chars("non"), Lit("<ru:otkazhus>"),
       Lit("<ru:nea>"), Chars("nah"), Chars("nope"), Chars("skip"), Lit("<ru:nea>"),
       Lit("<ru:ne budu>"), Lit("<ru:propustit>") >>

voiceAffirmativeKeywords ==
    << Chars("yes"), Chars("yep"), Chars("sure"), Chars("ok"), Lit("<ru:da>"),
       Lit("<ru:hochu>"), Chars("customize"), Chars("choose"), Lit("<ru:davai>"),
       Lit("<ru:vybrat>"), Lit("<ru:nastroit>") >>

\* page.tsx 293-313: the reply to a pending offer is affirmative
IsAffirmative(trimmedMessage) ==
    LET userResponseLower == ToLowerCase(trimmedMessage)
        wordsInResponse == SplitWords(userResponseLower)
        found == \E i \in 1..Len(affirmativeKeywords) :
                    ArrayIncludes(wordsInResponse, affirmativeKeywords[i])
        negated == \E i \in 1..Len(negativeKeywords) :
                    Includes(userResponseLower, negativeKeywords[i])
    IN  found /\ ~negated

\* page.tsx 357: the reply to the voice question is affirmative
VoiceAffirmative(trimmedMessage) ==
    \E i \in 1..Len(voiceAffirmativeKeywords) :
        Includes(ToLowerCase(trimmedMessage), voiceAffirmativeKeywords[i])

----------------------------------------------------------------------------
(* The external collaborators.  A call either throws or returns what the    *)
(* model produced; the flows' own post-processing is modelled below.        *)

\* the `||` of JavaScript on texts
Or(a, b) == IF a # <<>> THEN a ELSE b

\* error.message of a thrown error, as far as the catch block tells them apart
ErrorKinds == {"other", "503", "api key not valid"}

Threw(kind) == [threw |-> TRUE, error |-> kind]
Returned(v) == [threw |-> FALSE, value |-> v]

SelfieDecisionEnum == {"NORMAL_RESPONSE", "IMPLICIT_SELFIE_NOW", "PROACTIVE_SELFIE_OFFER"}

\* what the continueConversation prompt may hand to the flow
LlmOutput(text, decision, context) ==
    [defined |-> TRUE, responseText |-> text, decision |-> decision,
     selfieContext |-> context, musicPlayback |-> None]

LlmUndefined ==
    [defined |-> FALSE, responseText |-> <<>>, decision |-> "",
     selfieContext |-> <<>>, musicPlayback |-> None]

ReplyTexts == {Lit("<reply>")}
SelfieContexts == {Lit("<context 1>"), Lit("<context 2>")}

LlmOutputs ==
    {LlmUndefined}
    \cup {LlmOutput(r, "NORMAL_RESPONSE", <<>>) : r \in ReplyTexts}
    \cup {LlmOutput(r, "IMPLICIT_SELFIE_NOW", Lit("<context 1>")) : r \in ReplyTexts}
    \cup {LlmOutput(r, "PROACTIVE_SELFIE_OFFER", c) : r \in ReplyTexts, c \in SelfieContexts}
    \cup {LlmOutput(r, d, <<>>) : r \in ReplyTexts,
                                  d \in {"IMPLICIT_SELFIE_NOW", "PROACTIVE_SELFIE_OFFER", "SELFIE"}}
    \cup {LlmOutput(<<" ">>, "PROACTIVE_SELFIE_OFFER", Lit("<context 1>"))}

FlowOutput(text, decision, context) ==
    [responseText |-> text, decision |-> decision, selfieContext |-> context]

\* a variant of continueConversationFlow that hands the prompt's output on as it is
continueConversationFlow_AsIs(output) ==
    FlowOutput(output.responseText, output.decision, output.selfieContext)

\* continue-conversation.ts 97-156
continueConversationFlow(output) ==
    IF ~output.defined
    THEN FlowOutput(Lit("Sorry, I'm a bit lost for words right now."), "NORMAL_RESPONSE", <<>>)
    ELSE IF output.decision \notin SelfieDecisionEnum
    THEN FlowOutput(Or(output.responseText, Lit("I'm not sure what to say to that!")),
                    "NORMAL_RESPONSE", <<>>)
    ELSE IF output.decision \in {"IMPLICIT_SELFIE_NOW", "PROACTIVE_SELFIE_OFFER"}
            /\ output.selfieContext = <<>>
    THEN FlowOutput(Or(output.responseText,
                       Lit("I wanted to show you something, but I got a bit muddled!")),
                    "NORMAL_RESPONSE", <<>>)
    ELSE LET blank == Trim(output.responseText) = <<>>
         IN  FlowOutput(
                IF blank THEN Lit("I'm a bit tongue-tied at the moment!")
                         ELSE output.responseText,
                IF blank /\ output.decision # "NORMAL_RESPONSE"
                         /\ output.selfieContext = <<>> /\ output.musicPlayback = None
                THEN "NORMAL_RESPONSE" ELSE output.decision,
                output.selfieContext)

\* outcomes of `await continueConversation(...)`; `output` is what the prompt handed
\* to the flow, `value` what the flow returned
ContinueOutcomes ==
    {Threw(k) : k \in ErrorKinds}
    \cup {[threw |-> FALSE, value |-> continueConversationFlow(o), output |-> o] :
            o \in LlmOutputs}

\* a variant of getSetupPromptFlow without the fallback text
getSetupPromptFlow_AsIs(currentStep, aiResponse) == aiResponse

\* get-setup-prompt.ts 56-85: the prompt's aiResponse, or the fallback text
getSetupPromptFlow(currentStep, aiResponse) ==
    Or(aiResponse,
       Lit("I'm sorry, I'm having a little trouble getting set up. Could we try typing /start again?"))

\* the steps at which the step prompt is let to hand over no aiResponse (the
\* flow treats all steps alike, get-setup-prompt.ts 82-84)
SilentSteps == {"ASK_PERSONALITY"}

\* what the step prompt may hand to the flow as aiResponse: a text (named after
\* the step) or nothing
AiResponses(currentStep) ==
    {Lit(currentStep)} \cup (IF currentStep \in SilentSteps THEN {<<>>} ELSE {})

\* outcomes of `await getSetupPrompt({currentStep, ...})`
SetupPromptOutcomes(currentStep) ==
    {Threw("other")}
    \cup {Returned(getSetupPromptFlow(currentStep, a)) : a \in AiResponses(currentStep)}

\* outcomes of `await startConversation(...)`: { firstMessage }
StartConversationOutcomes == {Threw("other"), Returned(Lit("<first message>"))}

\* outcomes of `await generateSelfie(...)`: a result with selfieDataUri, a result
\* without (the flow's error result), or a throw
SelfieOutcomes == {Threw("other"), Returned(Lit("<selfie>")), Returned(<<>>)}

Portrait(i) ==
    Lit(CASE i = 1 -> "<portrait 1>" [] i = 2 -> "<portrait 2>"
          [] i = 3 -> "<portrait 3>" [] OTHER -> "<portrait 4>")

\* generateAppearanceOptionsFlow (src/unnamed/part_005 58-90)
\* prompts: what imagePromptRefinement did ("threw", "none" for no output,
\* "three" for a list of another length, "four"); succeeded: the prompts whose
\* ai.generate returned a media url. The flow throws unless it has four
\* prompts and four images (Promise.all rejects when one of its promises does).
generateAppearanceOptionsFlow(prompts, succeeded) ==
    IF prompts # "four"
    THEN [threw |-> TRUE, error |-> "other", value |-> <<>>]
    ELSE IF succeeded # 1..4
    THEN [threw |-> TRUE, error |-> "other", value |-> <<>>]
    ELSE [threw |-> FALSE, error |-> "", value |-> [i \in 1..4 |-> Portrait(i)]]

\* the sets of image calls that return a portrait: none, one, all but one, all
PortraitSets == {{}, {2}, {1, 3, 4}, 1..4}

\* outcomes of `await generateAppearanceOptions(...)`; `prompts` and `succeeded`
\* tell what happened inside the flow, the rest is what the caller sees
AppearanceOutcomes ==
    {[prompts |-> p, succeeded |-> {}] @@ generateAppearanceOptionsFlow(p, {}) :
        p \in {"threw", "none", "three"}}
    \cup {[prompts |-> "four", succeeded |-> s] @@ generateAppearanceOptionsFlow("four", s) :
            s \in PortraitSets}

----------------------------------------------------------------------------
(* State *)

SetupSteps ==
    {"INITIAL_LOAD", "AWAITING_AI_GREETING", "AWAITING_USER_NAME",
     "AWAITING_USER_PERSONALITY", "AWAITING_USER_TOPICS",
     "AWAITING_USER_VOICE_DECISION", "SELECTING_VOICE", "AWAITING_USER_APPEARANCE",
     "AWAITING_AI_CONFIRMATION", "GENERATING_APPEARANCE", "SELECTING_AVATAR", "CHAT_READY"}

AI_SETUP_STEPS ==
    [INITIATE |-> "INITIATE_SETUP", ASK_PERSONALITY |-> "ASK_PERSONALITY",
     ASK_TOPICS |-> "ASK_TOPICS", ASK_VOICE_PREFERENCE |-> "ASK_VOICE_PREFERENCE",
     ASK_APPEARANCE |-> "ASK_APPEARANCE_DESCRIPTION",
     CONFIRM_GENERATION |-> "CONFIRM_BEFORE_GENERATION"]

\* the values a handler reads: those of the render that created it
Env ==
    [messages |-> messages, appSettings |-> appSettings, settingsDraft |-> settingsDraft,
     clientSetupStep |-> clientSetupStep, pendingProactiveSelfie |-> pendingProactiveSelfie,
     isAiResponding |-> isAiResponding, isGeneratingSelfie |-> isGeneratingSelfie,
     isGeneratingPhotoshoot |-> isGeneratingPhotoshoot, isInitializing |-> isInitializing]

\* a handler suspended at an await
Task(op, text, aux) == [op |-> op, text |-> text, aux |-> aux, env |-> Env]

\* the other tasks, once task i has run to its end
Without(i) == SubSeq(tasks, 1, i - 1) \o SubSeq(tasks, i + 1, Len(tasks))

\* the item of window.localStorage
Absent == [kind |-> "absent", value |-> DEFAULT_SETTINGS_DRAFT]
Stored(kind, v) == [kind |-> kind, value |-> v]

\* useLocalStorage's setter: the value is written to the store as JSON
Persisted(v) == IF v = None THEN Stored("null", DEFAULT_SETTINGS_DRAFT) ELSE Stored("json", v[1])

\* a variant of IsComplete that does not ask for the avatar
IsComplete_TextsOnly(p) ==
    /\ p.userName # <<>> /\ p.personalityTraits # <<>>
    /\ p.topicPreferences # <<>> /\ p.appearanceDescription # <<>>

\* a variant of IsComplete that asks for the avatar alone
IsComplete_AvatarOnly(p) == p.selectedAvatarDataUri # <<>>

\* the required fields of a Profile are all set (page.tsx 112)
IsComplete(p) ==
    /\ p.selectedAvatarDataUri # <<>> /\ p.userName # <<>> /\ p.personalityTraits # <<>>
    /\ p.topicPreferences # <<>> /\ p.appearanceDescription # <<>>

\* what the user types into the chat input: one vocabulary per behaviour
Keyboards ==
    { {Chars(" /Start "), Chars("yes"), Chars("no")},
      {Chars("/voice"), Chars("/repeat"), Chars("/photo yes"), Chars("no")},
      {Chars("fine"), Chars("no")},
      {Chars("yes no")},
      {Chars("/photo"), Chars("/photo data:image/png;base64,QQ")},
      {Chars("/help")},
      {Chars("ok now")} }

\* a record an earlier session left in the store
StoredProfile ==
    [ userName |-> <<"A","l">>,
      personalityTraits |-> <<"k","i","n","d">>,
      topicPreferences |-> <<"a","r","t">>,
      appearanceDescription |-> <<"t","a","l","l">>,
      selectedVoiceName |-> <<>>,
      selectedAvatarDataUri |-> Lit("<stored avatar>"),
      autoPlayAiMessages |-> FALSE ]

InitialStorage ==
    { Absent,
      Stored("null", DEFAULT_SETTINGS_DRAFT),
      Stored("garbage", DEFAULT_SETTINGS_DRAFT),
      Stored("json", StoredProfile),
      Stored("json", [StoredProfile EXCEPT !.autoPlayAiMessages = TRUE]),
      Stored("json", [StoredProfile EXCEPT !.selectedAvatarDataUri = <<>>]),
      Stored("json", [StoredProfile EXCEPT !.userName = <<>>]) }

\* what `last` tells of a handler: its name (for handleSendMessage, the branch
\* taken), its input, the step and the transcript of its closure, and the
\* outcomes of the external calls it awaited
NoLast == [op |-> "none", text |-> <<>>, step |-> "", before |-> <<>>, results |-> <<>>]
NoRun == [path |-> <<>>, portraitCalls |-> 0]
Ran(op, text) ==
    [op |-> op, text |-> text, step |-> clientSetupStep, before |-> messages,
     results |-> <<>>]
Done(i, results) ==
    [op |-> tasks[i].op, text |-> tasks[i].text, step |-> tasks[i].env.clientSetupStep,
     before |-> tasks[i].env.messages, results |-> results]

\* the state of the component when it mounts (page.tsx 50-66)
Init ==
    /\ storage \in InitialStorage
    /\ appSettings = None
    /\ messages = <<>>
    /\ isInitializing = TRUE
    /\ isAiResponding = FALSE
    /\ isGeneratingSelfie = FALSE
    /\ isGeneratingPhotoshoot = FALSE
    /\ clientSetupStep = "INITIAL_LOAD"
    /\ setupVisualPhase = "conversational_setup"
    /\ settingsDraft = DEFAULT_SETTINGS_DRAFT
    /\ appearanceOptions = <<>>
    /\ pendingProactiveSelfie = None
    /\ tasks = <<>>
    /\ effectDue = FALSE
    /\ calls = <<>>
    /\ toasts = <<>>
    /\ last = NoLast
    /\ ops = 0
    /\ run = NoRun
    /\ keyboard \in Keyboards

\* the condition under which runAISetupStep requests the greeting (page.tsx 165)
GreetingWanted(step, msgs, responding, initializing) ==
    step = "AWAITING_AI_GREETING" /\ msgs = <<>> /\ ~responding /\ ~initializing

\* The greeting effect runs after a render in which one of its dependencies
\* [clientSetupStep, isInitializing, initialLanguageHint, messages.length]
\* changed (page.tsx 184).  effectDue records that it will run and request
\* the greeting; a run that finds its condition false does nothing.
EffectAfter ==
    effectDue' =
        /\ \/ effectDue
           \/ clientSetupStep' # clientSetupStep
           \/ isInitializing' # isInitializing
           \/ Len(messages') # Len(messages)
        /\ GreetingWanted(clientSetupStep', messages', isAiResponding', isInitializing')

\* no handler is suspended at an await
Idle == tasks = <<>>

\* page.tsx 186-188
addMessage(msgs, m) == Append(msgs, m)

----------------------------------------------------------------------------
(* Initial load (page.tsx 100-161) *)

\* a variant of loadStateAndInitiateSetup that leaves a rejected item in the store
loadStateAndInitiateSetup_KeepsItem ==
    /\ clientSetupStep = "INITIAL_LOAD"
    /\ last' = Ran("load", <<>>)
    /\ toasts' = <<>>
    /\ IF storage.kind \in {"json", "garbage"}
       THEN IF storage.kind = "json" /\ IsComplete(storage.value)
            THEN /\ appSettings' = Some(storage.value)
                 /\ storage' = Persisted(Some(storage.value))
                 /\ settingsDraft' = storage.value
                 /\ clientSetupStep' = "CHAT_READY"
                 /\ setupVisualPhase' = "chat_ready"
                 /\ IF messages = <<>>
                    THEN /\ isAiResponding' = TRUE
                         /\ tasks' = Append(tasks, Task("load", storage.value.userName, ""))
                         /\ calls' = <<[fn |-> "startConversation",
                                        personalityTraits |-> storage.value.personalityTraits,
                                        topicPreferences |-> storage.value.topicPreferences]>>
                         /\ UNCHANGED isInitializing
                    ELSE /\ isAiResponding' = FALSE
                         /\ isInitializing' = FALSE
                         /\ calls' = <<>>
                         /\ UNCHANGED tasks
            ELSE \* incomplete or unparsable
                 /\ appSettings' = None
                 /\ storage' = storage
                 /\ clientSetupStep' = "AWAITING_AI_GREETING"
                 /\ setupVisualPhase' = "conversational_setup"
                 /\ settingsDraft' = DEFAULT_SETTINGS_DRAFT
                 /\ isAiResponding' = FALSE
                 /\ isInitializing' = FALSE
                 /\ calls' = <<>>
                 /\ UNCHANGED tasks
       ELSE \* no item, or the item "null"
            /\ appSettings' = None
            /\ storage' = Persisted(None)
            /\ clientSetupStep' = "AWAITING_AI_GREETING"
            /\ setupVisualPhase' = "conversational_setup"
            /\ settingsDraft' = DEFAULT_SETTINGS_DRAFT
            /\ isAiResponding' = FALSE
            /\ isInitializing' = FALSE
            /\ calls' = <<>>
            /\ UNCHANGED tasks
    /\ isGeneratingSelfie' = FALSE
    /\ isGeneratingPhotoshoot' = FALSE
    /\ UNCHANGED <<messages, appearanceOptions, pendingProactiveSelfie, ops, run>>
    /\ EffectAfter
    /\ UNCHANGED keyboard

loadStateAndInitiateSetup ==
    /\ clientSetupStep = "INITIAL_LOAD"
    /\ last' = Ran("load", <<>>)
    /\ toasts' = <<>>
    /\ IF storage.kind \in {"json", "garbage"}
       THEN IF storage.kind = "json" /\ IsComplete(storage.value)
            THEN /\ appSettings' = Some(storage.value)
                 /\ storage' = Persisted(Some(storage.value))
                 /\ settingsDraft' = storage.value
                 /\ clientSetupStep' = "CHAT_READY"
                 /\ setupVisualPhase' = "chat_ready"
                 /\ IF messages = <<>>
                    THEN /\ isAiResponding' = TRUE
                         /\ tasks' = Append(tasks, Task("load", storage.value.userName, ""))
                         /\ calls' = <<[fn |-> "startConversation",
                                        personalityTraits |-> storage.value.personalityTraits,
                                        topicPreferences |-> storage.value.topicPreferences]>>
                         /\ UNCHANGED isInitializing
                    ELSE /\ isAiResponding' = FALSE
                         /\ isInitializing' = FALSE
                         /\ calls' = <<>>
                         /\ UNCHANGED tasks
            ELSE \* incomplete or unparsable
                 /\ appSettings' = None
                 /\ storage' = Absent
                 /\ clientSetupStep' = "AWAITING_AI_GREETING"
                 /\ setupVisualPhase' = "conversational_setup"
                 /\ settingsDraft' = DEFAULT_SETTINGS_DRAFT
                 /\ isAiResponding' = FALSE
                 /\ isInitializing' = FALSE
                 /\ calls' = <<>>
                 /\ UNCHANGED tasks
       ELSE \* no item, or the item "null"
            /\ appSettings' = None
            /\ storage' = Persisted(None)
            /\ clientSetupStep' = "AWAITING_AI_GREETING"
            /\ setupVisualPhase' = "conversational_setup"
            /\ settingsDraft' = DEFAULT_SETTINGS_DRAFT
            /\ isAiResponding' = FALSE
            /\ isInitializing' = FALSE
            /\ calls' = <<>>
            /\ UNCHANGED tasks
    /\ isGeneratingSelfie' = FALSE
    /\ isGeneratingPhotoshoot' = FALSE
    /\ UNCHANGED <<messages, appearanceOptions, pendingProactiveSelfie, ops, run>>
    /\ EffectAfter
    /\ UNCHANGED keyboard

\* startConversation of the initial load returns or throws (page.tsx 119-130, 157)
ResolveLoad(i) ==
    /\ i \in DOMAIN tasks /\ tasks[i].op = "load"
    /\ \E r \in StartConversationOutcomes :
          /\ last' = Done(i, <<r>>)
          /\ messages' =
               IF r.threw
               THEN addMessage(messages, AiText(Lit("I'm having a little trouble starting our chat right now. Let's try again in a moment!")))
               ELSE addMessage(messages,
                       AiText(Lit("Welcome back, ") \o tasks[i].text
                              \o Lit("! ") \o r.value))
    /\ isAiResponding' = FALSE
    /\ isInitializing' = FALSE
    /\ tasks' = Without(i)
    /\ UNCHANGED <<storage, appSettings, isGeneratingSelfie, isGeneratingPhotoshoot,
                   clientSetupStep, setupVisualPhase, settingsDraft, appearanceOptions,
                   pendingProactiveSelfie, calls, toasts, ops, run>>
    /\ EffectAfter
    /\ UNCHANGED keyboard

----------------------------------------------------------------------------
(* Requests sent to the external collaborators *)

\* page.tsx 64, 70-75
initialLanguageHint == Lit("<language hint>")

SetupPromptCall(currentStep, userName, userRawInput) ==
    [fn |-> "getSetupPrompt", currentStep |-> currentStep, userName |-> userName,
     userRawInput |-> userRawInput]

\* Array.prototype.join
RECURSIVE Join(_, _)
Join(lines, sep) ==
    IF lines = <<>> THEN <<>>
    ELSE IF Len(lines) = 1 THEN lines[1]
    ELSE lines[1] \o sep \o Join(Tail(lines), sep)

\* one line of a serialized chat history (page.tsx 323, 414, 569)
HistoryLine(msg, userName) ==
    (IF msg.sender = "user" THEN userName ELSE Lit("AI Girlfriend"))
    \o Lit(": ")
    \o Or(msg.text, IF msg.imageUrl # <<>> THEN Lit("[sent a selfie]") ELSE <<>>)

Serialize(window, userName) ==
    Join([i \in 1..Len(window) |-> HistoryLine(window[i], userName)], Lit("\\n"))

\* a variant of ContinueCall that sends the last entry of the closure's transcript
ContinueCall_LastOfTranscript(env, trimmedMessage, userName) ==
    [fn |-> "continueConversation",
     lastUserMessage |-> IF env.messages = <<>> THEN <<>>
                         ELSE env.messages[Len(env.messages)].text,
     chatHistory |-> Serialize(SliceFromEnd(env.messages, 21, 1), userName),
     personalityTraits |-> env.appSettings[1].personalityTraits,
     topicPreferences |-> env.appSettings[1].topicPreferences]

\* page.tsx 320-327 and 412-422: the request of a chat turn, built from the closure
ContinueCall(env, trimmedMessage, userName) ==
    [fn |-> "continueConversation",
     lastUserMessage |-> trimmedMessage,
     chatHistory |-> Serialize(SliceFromEnd(env.messages, 21, 1), userName),
     personalityTraits |-> env.appSettings[1].personalityTraits,
     topicPreferences |-> env.appSettings[1].topicPreferences]

\* page.tsx 562: handleGenerateSelfieRequest goes on
SelfieGuard(env, currentAppSettings) ==
    /\ currentAppSettings.selectedAvatarDataUri # <<>>
    /\ ~env.isGeneratingSelfie /\ ~env.isAiResponding /\ ~env.isGeneratingPhotoshoot

\* page.tsx 567-578: the request handleGenerateSelfieRequest sends
SelfieCall(env, currentAppSettings, selfieContext, userRequestText) ==
    [fn |-> "generateSelfie",
     personalityTraits |-> currentAppSettings.personalityTraits,
     topicPreferences |-> currentAppSettings.topicPreferences,
     chatHistory |-> Serialize(SliceFromEnd(env.messages, 7, 0), currentAppSettings.userName),
     baseImageDataUri |-> currentAppSettings.selectedAvatarDataUri,
     userSelfieRequestText |-> Or(userRequestText, selfieContext)]

\* a variant of SelfieMessage that shows an image whatever the outcome
SelfieMessage_AlwaysImage(r) ==
    IF r.threw THEN AiImage(Lit("<no picture>"))
    ELSE AiImage(Or(r.value, Lit("<no picture>")))

\* page.tsx 582-591: what handleGenerateSelfieRequest appends for an outcome
SelfieMessage(r) ==
    IF r.threw THEN AiText(Lit("<something went wrong with my camera>"))
    ELSE IF r.value # <<>> THEN AiImage(r.value)
    ELSE AiText(Lit("<cannot send a selfie right now>"))

\* page.tsx 439-444
FriendlyErrorText(kind) ==
    CASE kind = "503" -> Lit("<my bulbs overheated, try again in a minute>")
      [] kind = "api key not valid" -> Lit("<something is wrong with my connection to the AI services>")
      [] OTHER -> Lit("<something went wrong, let us try again later>")

----------------------------------------------------------------------------
(* The greeting effect (page.tsx 163-184) *)

runAISetupStep ==
    /\ effectDue
    /\ effectDue' = FALSE
    /\ IF GreetingWanted(clientSetupStep, messages, isAiResponding, isInitializing)
       THEN /\ isAiResponding' = TRUE
            /\ tasks' = Append(tasks, Task("effect", <<>>, ""))
            /\ calls' = <<SetupPromptCall(AI_SETUP_STEPS.INITIATE, <<>>, initialLanguageHint)>>
            /\ toasts' = <<>>
            /\ last' = Ran("effect", <<>>)
       ELSE UNCHANGED <<isAiResponding, tasks, calls, toasts, last>>
    /\ UNCHANGED <<storage, appSettings, messages, isInitializing, isGeneratingSelfie,
                   isGeneratingPhotoshoot, clientSetupStep, setupVisualPhase,
                   settingsDraft, appearanceOptions, pendingProactiveSelfie, ops, run,
                   keyboard>>

\* getSetupPrompt of the greeting effect returns or throws (page.tsx 169-177)
ResolveEffect(i) ==
    /\ i \in DOMAIN tasks /\ tasks[i].op = "effect"
    /\ \E r \in SetupPromptOutcomes(AI_SETUP_STEPS.INITIATE) :
          /\ last' = Done(i, <<r>>)
          /\ IF r.threw
             THEN /\ toasts' = Append(toasts, "Setup Error")
                  /\ UNCHANGED <<messages, clientSetupStep>>
             ELSE /\ messages' = addMessage(messages, AiText(r.value))
                  /\ clientSetupStep' = "AWAITING_USER_NAME"
                  /\ UNCHANGED toasts
    /\ isAiResponding' = FALSE
    /\ tasks' = Without(i)
    /\ UNCHANGED <<storage, appSettings, isInitializing, isGeneratingSelfie,
                   isGeneratingPhotoshoot, setupVisualPhase, settingsDraft,
                   appearanceOptions, pendingProactiveSelfie, calls, ops, run>>
    /\ EffectAfter
    /\ UNCHANGED keyboard

----------------------------------------------------------------------------
(* The /photo command's inline image (page.tsx 236-244) *)

Digits == {"0","1","2","3","4","5","6","7","8","9"}

\* [A-Za-z0-9+/=]
Base64Chars ==
    {UpperCase[i] : i \in 1..Len(UpperCase)} \cup {LowerCase[i] : i \in 1..Len(LowerCase)}
    \cup Digits \cup {"+", "/", "="}

\* data:image\/(?:png|jpeg|gif|webp|svg\+xml);base64,
DataUriPrefixes ==
    { <<"d","a","t","a",":","i","m","a","g","e","/">> \o kind \o <<";","b","a","s","e","6","4",",">> :
        kind \in { <<"p","n","g">>, <<"j","p","e","g">>, <<"g","i","f">>,
                   <<"w","e","b","p">>, <<"s","v","g","+","x","m","l">> } }

\* the regular expression matches at position i with prefix p
MatchesAt(s, i, p) ==
    /\ i + Len(p) <= Len(s)
    /\ SubSeq(s, i, i + Len(p) - 1) = p
    /\ s[i + Len(p)] \in Base64Chars

\* the last position of the run of base64 characters that starts at j
RECURSIVE RunEnd(_, _)
RunEnd(s, j) == IF j < Len(s) /\ s[j + 1] \in Base64Chars THEN RunEnd(s, j + 1) ELSE j

\* String.prototype.match(dataUriRegex): the leftmost match, or none
DataUriMatch(s) ==
    LET starts == {i \in 1..Len(s) : \E p \in DataUriPrefixes : MatchesAt(s, i, p)}
    IN  IF starts = {} THEN [found |-> FALSE, from |-> 0, to |-> 0]
        ELSE LET i == CHOOSE k \in starts : \A m \in starts : k <= m
                 p == CHOOSE q \in DataUriPrefixes : MatchesAt(s, i, q)
             IN  [found |-> TRUE, from |-> i, to |-> RunEnd(s, i + Len(p))]

\* page.tsx 227-245: the base image and the description of a /photo command
\* (preAttachedImage is never set, so the regular expression always decides)
PhotoArguments(trimmedMessage, currentAppSettings) ==
    LET photoshootDescription == Trim(Substring(trimmedMessage, 7))
        match == DataUriMatch(photoshootDescription)
    IN  IF match.found
        THEN [baseUriToUse |-> SubSeq(photoshootDescription, match.from, match.to),
              photoshootDescription |->
                  Trim(SubSeq(photoshootDescription, 1, match.from - 1)
                       \o SubSeq(photoshootDescription, match.to + 1,
                                 Len(photoshootDescription)))]
        ELSE [baseUriToUse |-> currentAppSettings.selectedAvatarDataUri,
              photoshootDescription |-> photoshootDescription]

----------------------------------------------------------------------------
(* What the page renders (page.tsx 626-753) and what the chat input lets   *)
(* through (chat-window.tsx, ChatInput)                                     *)

\* a ChatWindow is on screen
ChatShown ==
    /\ ~isInitializing
    /\ \/ setupVisualPhase = "conversational_setup"
       \/ setupVisualPhase = "chat_ready" /\ appSettings # None

\* a variant of isSendingMessage that leaves isAiResponding out
isSendingMessage_ImagesOnly == isGeneratingSelfie \/ isGeneratingPhotoshoot

\* the isSendingMessage prop, the only one ChatWindow hands on to ChatInput
isSendingMessage == isAiResponding \/ isGeneratingSelfie \/ isGeneratingPhotoshoot

\* the transcript is short enough for one more submission
RoomToSubmit ==
    Len(messages) < (IF clientSetupStep = "CHAT_READY" THEN MaxChatMsgs ELSE MaxMsgs)

\* a user operation may begin: the effects of the last render have run
UserMayAct == ops < MaxOps /\ ~effectDue

\* the record of a user operation in run.path; operations of the chat are not recorded
Step(op, text) == [op |-> op, step |-> clientSetupStep, text |-> text]
Recorded(op, text) ==
    IF clientSetupStep = "CHAT_READY" THEN run
    ELSE [run EXCEPT !.path = Append(@, Step(op, text))]

----------------------------------------------------------------------------
(* handleSendMessage (page.tsx 190-467), up to its first await *)

\* a variant of SendBranch that compares the message as typed with the commands
SendBranch_AsTyped(trimmedMessage) ==
    IF trimmedMessage = Chars("/start") THEN "start"
    ELSE IF StartsWith(trimmedMessage, Chars("/photo ")) THEN "photo"
    ELSE IF trimmedMessage = Chars("/voice") THEN "voice"
    ELSE IF trimmedMessage = Chars("/repeat") THEN "repeat"
    ELSE IF pendingProactiveSelfie # None /\ appSettings # None
         THEN IF IsAffirmative(trimmedMessage) THEN "accepted" ELSE "declined"
    ELSE IF clientSetupStep \notin {"CHAT_READY", "SELECTING_VOICE"} THEN "setup"
    ELSE IF appSettings # None /\ clientSetupStep = "CHAT_READY" THEN "chat"
    ELSE "ignored"

\* a variant of SendBranch that looks at the pending offer after the chat turn
SendBranch_OfferLast(trimmedMessage) ==
    LET lower == ToLowerCase(trimmedMessage)
    IN  IF lower = Chars("/start") THEN "start"
        ELSE IF StartsWith(lower, Chars("/photo ")) THEN "photo"
        ELSE IF lower = Chars("/voice") THEN "voice"
        ELSE IF lower = Chars("/repeat") THEN "repeat"
        ELSE IF clientSetupStep \notin {"CHAT_READY", "SELECTING_VOICE"} THEN "setup"
        ELSE IF appSettings # None /\ clientSetupStep = "CHAT_READY" THEN "chat"
        ELSE IF pendingProactiveSelfie # None /\ appSettings # None
             THEN IF IsAffirmative(trimmedMessage) THEN "accepted" ELSE "declined"
        ELSE "ignored"

\* a variant of SendBranch that looks for /photo and /repeat after the wizard's steps
SendBranch_WizardFirst(trimmedMessage) ==
    LET lower == ToLowerCase(trimmedMessage)
    IN  IF lower = Chars("/start") THEN "start"
        ELSE IF lower = Chars("/voice") THEN "voice"
        ELSE IF pendingProactiveSelfie # None /\ appSettings # None
             THEN IF IsAffirmative(trimmedMessage) THEN "accepted" ELSE "declined"
        ELSE IF clientSetupStep \notin {"CHAT_READY", "SELECTING_VOICE"} THEN "setup"
        ELSE IF StartsWith(lower, Chars("/photo ")) THEN "photo"
        ELSE IF lower = Chars("/repeat") THEN "repeat"
        ELSE IF appSettings # None /\ clientSetupStep = "CHAT_READY" THEN "chat"
        ELSE "ignored"

\* the branch handleSendMessage takes for a message
SendBranch(trimmedMessage) ==
    LET lower == ToLowerCase(trimmedMessage)
    IN  IF lower = Chars("/start") THEN "start"
        ELSE IF StartsWith(lower, Chars("/photo ")) THEN "photo"
        ELSE IF lower = Chars("/voice") THEN "voice"
        ELSE IF lower = Chars("/repeat") THEN "repeat"
        ELSE IF pendingProactiveSelfie # None /\ appSettings # None
             THEN IF IsAffirmative(trimmedMessage) THEN "accepted" ELSE "declined"
        ELSE IF clientSetupStep \notin {"CHAT_READY", "SELECTING_VOICE"} THEN "setup"
        ELSE IF appSettings # None /\ clientSetupStep = "CHAT_READY" THEN "chat"
        ELSE "ignored"

\* page.tsx 193-220
StartCommand(trimmedMessage) ==
    /\ appSettings' = None
    /\ storage' = Absent
    /\ messages' = <<>>
    /\ settingsDraft' = DEFAULT_SETTINGS_DRAFT
    /\ appearanceOptions' = <<>>
    /\ pendingProactiveSelfie' = None
    /\ clientSetupStep' = "AWAITING_AI_GREETING"
    /\ setupVisualPhase' = "conversational_setup"
    /\ isGeneratingSelfie' = FALSE
    /\ isGeneratingPhotoshoot' = FALSE
    /\ toasts' = <<"New Chat Started">>
    /\ run' = NoRun
    /\ IF messages = <<>> /\ ~isInitializing
       THEN /\ isAiResponding' = TRUE
            /\ tasks' = Append(tasks, Task("start", trimmedMessage, ""))
            /\ calls' = <<SetupPromptCall(AI_SETUP_STEPS.INITIATE, <<>>, initialLanguageHint)>>
       ELSE /\ isAiResponding' = FALSE
            /\ calls' = <<>>
            /\ UNCHANGED tasks

\* page.tsx 221-263 and 596-600
PhotoCommand(trimmedMessage) ==
    /\ run' = Recorded("photo", trimmedMessage)
    /\ UNCHANGED <<storage, appSettings, isAiResponding, isGeneratingSelfie, clientSetupStep,
                   setupVisualPhase, settingsDraft, appearanceOptions,
                   pendingProactiveSelfie>>
    /\ IF appSettings = None
       THEN /\ toasts' = <<"Photoshoot Error">>
            /\ calls' = <<>>
            /\ UNCHANGED <<messages, isGeneratingPhotoshoot, tasks>>
       ELSE LET args == PhotoArguments(trimmedMessage, appSettings[1])
                shown == addMessage(messages, UserText(trimmedMessage))
                noted == IF args.baseUriToUse # appSettings[1].selectedAvatarDataUri
                         THEN addMessage(shown, AiText(Lit("Understood! Using the image you provided in the command for this photoshoot.")))
                         ELSE shown
            IN  /\ toasts' = <<>>
                /\ IF args.baseUriToUse = <<>>
                   THEN /\ messages' = addMessage(messages, AiText(Lit("I need a base image for the photoshoot. ...")))
                        /\ calls' = <<>>
                        /\ UNCHANGED <<isGeneratingPhotoshoot, tasks>>
                   ELSE IF args.photoshootDescription = <<>>
                   THEN /\ messages' = addMessage(messages, AiText(Lit("Please provide a description for the photoshoot after the /photo command. ...")))
                        /\ calls' = <<>>
                        /\ UNCHANGED <<isGeneratingPhotoshoot, tasks>>
                   ELSE IF isGeneratingPhotoshoot \/ isAiResponding \/ isGeneratingSelfie
                   THEN /\ messages' = noted
                        /\ calls' = <<>>
                        /\ UNCHANGED <<isGeneratingPhotoshoot, tasks>>
                   ELSE /\ isGeneratingPhotoshoot' = TRUE
                        /\ messages' = addMessage(noted,
                              AiText(Lit("<sending a photoshoot on: ") \o args.photoshootDescription \o Lit(">")))
                        /\ calls' = <<[fn |-> "generatePhotoshootImages",
                                       userDescription |-> args.photoshootDescription,
                                       baseImageDataUri |-> args.baseUriToUse]>>
                        /\ tasks' = Append(tasks, Task("photo", args.photoshootDescription, ""))

\* page.tsx 264-273
VoiceCommand(trimmedMessage) ==
    /\ run' = Recorded("voice", trimmedMessage)
    /\ calls' = <<>>
    /\ UNCHANGED <<storage, appSettings, isGeneratingSelfie, isGeneratingPhotoshoot,
                   settingsDraft, appearanceOptions, pendingProactiveSelfie, tasks>>
    /\ IF settingsDraft.userName = <<>>
          /\ (appSettings = None \/ appSettings[1].userName = <<>>)
       THEN /\ toasts' = <<"Voice Change">>
            /\ UNCHANGED <<messages, clientSetupStep, setupVisualPhase, isAiResponding>>
       ELSE /\ messages' = addMessage(messages, AiText(Lit("Sure, let's choose a new voice for me. You can also use the 'Use Default Voice' option if you prefer.")))
            /\ clientSetupStep' = "SELECTING_VOICE"
            /\ setupVisualPhase' = "voice_selection"
            /\ isAiResponding' = FALSE
            /\ toasts' = <<>>

\* a variant of RepeatCommand that switches playback on whatever the flag was
RepeatCommand_SwitchesOn(trimmedMessage) ==
    /\ run' = Recorded("repeat", trimmedMessage)
    /\ calls' = <<>>
    /\ toasts' = <<"Voice Playback">>
    /\ UNCHANGED <<isAiResponding, isGeneratingSelfie, isGeneratingPhotoshoot, clientSetupStep,
                   setupVisualPhase, settingsDraft, appearanceOptions,
                   pendingProactiveSelfie, tasks>>
    /\ IF appSettings # None
       THEN LET updatedSettings == [appSettings[1] EXCEPT !.autoPlayAiMessages = TRUE]
            IN  /\ appSettings' = Some(updatedSettings)
                /\ storage' = Persisted(Some(updatedSettings))
                /\ messages' = addMessage(messages,
                                          AiText(Lit("Automatic voice playback enabled.")))
       ELSE UNCHANGED <<appSettings, storage, messages>>

\* page.tsx 274-286
RepeatCommand(trimmedMessage) ==
    /\ run' = Recorded("repeat", trimmedMessage)
    /\ calls' = <<>>
    /\ toasts' = <<"Voice Playback">>
    /\ UNCHANGED <<isAiResponding, isGeneratingSelfie, isGeneratingPhotoshoot, clientSetupStep,
                   setupVisualPhase, settingsDraft, appearanceOptions,
                   pendingProactiveSelfie, tasks>>
    /\ IF appSettings # None
       THEN LET newAutoPlayState == ~appSettings[1].autoPlayAiMessages
                updatedSettings == [appSettings[1] EXCEPT !.autoPlayAiMessages = newAutoPlayState]
            IN  /\ appSettings' = Some(updatedSettings)
                /\ storage' = Persisted(Some(updatedSettings))
                /\ messages' = addMessage(messages,
                      AiText(IF newAutoPlayState
                             THEN Lit("Automatic voice playback enabled.")
                             ELSE Lit("Automatic voice playback disabled.")))
       ELSE UNCHANGED <<appSettings, storage, messages>>

\* page.tsx 288-289, 315-317 and 561-580: the offer is accepted
OfferAccepted(trimmedMessage) ==
    /\ run' = Recorded("accepted", trimmedMessage)
    /\ messages' = addMessage(addMessage(messages, UserText(trimmedMessage)),
                              AiText(Lit("Great! One moment...")))
    /\ toasts' = <<>>
    /\ UNCHANGED <<storage, appSettings, isGeneratingPhotoshoot, clientSetupStep,
                   setupVisualPhase, settingsDraft, appearanceOptions>>
    /\ IF SelfieGuard(Env, appSettings[1])
       THEN /\ isAiResponding' = TRUE
            /\ isGeneratingSelfie' = TRUE
            /\ calls' = <<SelfieCall(Env, appSettings[1], pendingProactiveSelfie[1].context,
                                     trimmedMessage)>>
            /\ tasks' = Append(tasks, Task("accepted", trimmedMessage, ""))
            /\ UNCHANGED pendingProactiveSelfie
       ELSE /\ isAiResponding' = FALSE
            /\ pendingProactiveSelfie' = None
            /\ calls' = <<>>
            /\ UNCHANGED <<isGeneratingSelfie, tasks>>

\* page.tsx 288-289 and 318-327: the offer is declined
OfferDeclined(trimmedMessage) ==
    /\ run' = Recorded("declined", trimmedMessage)
    /\ messages' = addMessage(addMessage(messages, UserText(trimmedMessage)),
                              AiText(Lit("Alright, no worries!")))
    /\ isAiResponding' = TRUE
    /\ calls' = <<ContinueCall(Env, trimmedMessage, Or(appSettings[1].userName, Lit("User")))>>
    /\ tasks' = Append(tasks, Task("declined", trimmedMessage, ""))
    /\ toasts' = <<>>
    /\ UNCHANGED <<storage, appSettings, isGeneratingSelfie, isGeneratingPhotoshoot,
                   clientSetupStep, setupVisualPhase, settingsDraft, appearanceOptions,
                   pendingProactiveSelfie>>

\* a variant of SetupPlan that asks the next question and keeps the draft as it was
SetupPlan_KeepsDraft(step, draft, trimmedMessage) ==
    CASE step = "AWAITING_USER_NAME" ->
            [kind |-> "ask", updatedSettingsDraft |-> draft,
             nextAiFlowStep |-> AI_SETUP_STEPS.ASK_PERSONALITY,
             nextClientStep |-> "AWAITING_USER_PERSONALITY"]
      [] step = "AWAITING_USER_PERSONALITY" ->
            [kind |-> "ask", updatedSettingsDraft |-> draft,
             nextAiFlowStep |-> AI_SETUP_STEPS.ASK_TOPICS,
             nextClientStep |-> "AWAITING_USER_TOPICS"]
      [] step = "AWAITING_USER_TOPICS" ->
            [kind |-> "ask", updatedSettingsDraft |-> draft,
             nextAiFlowStep |-> AI_SETUP_STEPS.ASK_VOICE_PREFERENCE,
             nextClientStep |-> "AWAITING_USER_VOICE_DECISION"]
      [] step = "AWAITING_USER_VOICE_DECISION" ->
            IF VoiceAffirmative(trimmedMessage)
            THEN [kind |-> "selectVoice", updatedSettingsDraft |-> draft,
                  nextAiFlowStep |-> "", nextClientStep |-> "SELECTING_VOICE"]
            ELSE [kind |-> "ask", updatedSettingsDraft |-> draft,
                  nextAiFlowStep |-> AI_SETUP_STEPS.ASK_APPEARANCE,
                  nextClientStep |-> "AWAITING_USER_APPEARANCE"]
      [] step = "AWAITING_USER_APPEARANCE" ->
            [kind |-> "ask", updatedSettingsDraft |-> draft,
             nextAiFlowStep |-> AI_SETUP_STEPS.CONFIRM_GENERATION,
             nextClientStep |-> "AWAITING_AI_CONFIRMATION"]
      [] OTHER ->
            [kind |-> "unexpected", updatedSettingsDraft |-> draft,
             nextAiFlowStep |-> "", nextClientStep |-> step]

\* page.tsx 339-376: what a wizard step makes of the reply
SetupPlan(step, draft, trimmedMessage) ==
    CASE step = "AWAITING_USER_NAME" ->
            [kind |-> "ask",
             updatedSettingsDraft |->
                [draft EXCEPT !.userName = Or(trimmedMessage, DEFAULT_SETTINGS_DRAFT.userName)],
             nextAiFlowStep |-> AI_SETUP_STEPS.ASK_PERSONALITY,
             nextClientStep |-> "AWAITING_USER_PERSONALITY"]
      [] step = "AWAITING_USER_PERSONALITY" ->
            [kind |-> "ask",
             updatedSettingsDraft |->
                [draft EXCEPT !.personalityTraits =
                                  Or(trimmedMessage, DEFAULT_SETTINGS_DRAFT.personalityTraits)],
             nextAiFlowStep |-> AI_SETUP_STEPS.ASK_TOPICS,
             nextClientStep |-> "AWAITING_USER_TOPICS"]
      [] step = "AWAITING_USER_TOPICS" ->
            [kind |-> "ask",
             updatedSettingsDraft |->
                [draft EXCEPT !.topicPreferences =
                                  Or(trimmedMessage, DEFAULT_SETTINGS_DRAFT.topicPreferences)],
             nextAiFlowStep |-> AI_SETUP_STEPS.ASK_VOICE_PREFERENCE,
             nextClientStep |-> "AWAITING_USER_VOICE_DECISION"]
      [] step = "AWAITING_USER_VOICE_DECISION" ->
            IF VoiceAffirmative(trimmedMessage)
            THEN [kind |-> "selectVoice", updatedSettingsDraft |-> draft,
                  nextAiFlowStep |-> "", nextClientStep |-> "SELECTING_VOICE"]
            ELSE [kind |-> "ask",
                  updatedSettingsDraft |-> [draft EXCEPT !.selectedVoiceName = None],
                  nextAiFlowStep |-> AI_SETUP_STEPS.ASK_APPEARANCE,
                  nextClientStep |-> "AWAITING_USER_APPEARANCE"]
      [] step = "AWAITING_USER_APPEARANCE" ->
            [kind |-> "ask",
             updatedSettingsDraft |->
                [draft EXCEPT !.appearanceDescription =
                                  Or(trimmedMessage, DEFAULT_SETTINGS_DRAFT.appearanceDescription)],
             nextAiFlowStep |-> AI_SETUP_STEPS.CONFIRM_GENERATION,
             nextClientStep |-> "AWAITING_AI_CONFIRMATION"]
      [] OTHER ->
            [kind |-> "unexpected", updatedSettingsDraft |-> draft,
             nextAiFlowStep |-> "", nextClientStep |-> step]

\* page.tsx 288-289 and 338-385: a reply during the wizard
SetupReply(trimmedMessage) ==
    LET plan == SetupPlan(clientSetupStep, settingsDraft, trimmedMessage)
    IN  /\ run' = Recorded("setup", trimmedMessage)
        /\ messages' = addMessage(messages, UserText(trimmedMessage))
        /\ toasts' = <<>>
        /\ UNCHANGED <<storage, appSettings, isGeneratingSelfie, isGeneratingPhotoshoot,
                       appearanceOptions, pendingProactiveSelfie>>
        /\ IF plan.kind = "ask"
           THEN /\ settingsDraft' = plan.updatedSettingsDraft
                /\ isAiResponding' = TRUE
                /\ calls' = <<SetupPromptCall(plan.nextAiFlowStep,
                                              plan.updatedSettingsDraft.userName,
                                              trimmedMessage)>>
                /\ tasks' = Append(tasks, Task("setup", trimmedMessage, ""))
                /\ UNCHANGED <<clientSetupStep, setupVisualPhase>>
           ELSE /\ isAiResponding' = FALSE
                /\ calls' = <<>>
                /\ clientSetupStep' = plan.nextClientStep
                /\ setupVisualPhase' = IF plan.kind = "selectVoice" THEN "voice_selection"
                                       ELSE setupVisualPhase
                /\ UNCHANGED <<settingsDraft, tasks>>

\* page.tsx 288-289 and 411-422: a chat turn
ChatTurn(trimmedMessage) ==
    /\ run' = Recorded("chat", trimmedMessage)
    /\ messages' = addMessage(messages, UserText(trimmedMessage))
    /\ isAiResponding' = TRUE
    /\ calls' = <<ContinueCall(Env, trimmedMessage, appSettings[1].userName)>>
    /\ tasks' = Append(tasks, Task("chat", trimmedMessage, ""))
    /\ toasts' = <<>>
    /\ UNCHANGED <<storage, appSettings, isGeneratingSelfie, isGeneratingPhotoshoot,
                   clientSetupStep, setupVisualPhase, settingsDraft, appearanceOptions,
                   pendingProactiveSelfie>>

\* page.tsx 288-289, 434-436 and 464-466: the message is shown and nothing else happens
Ignored(trimmedMessage) ==
    /\ run' = Recorded("ignored", trimmedMessage)
    /\ messages' = addMessage(messages, UserText(trimmedMessage))
    /\ isAiResponding' = FALSE
    /\ calls' = <<>>
    /\ toasts' = <<>>
    /\ UNCHANGED <<storage, appSettings, isGeneratingSelfie, isGeneratingPhotoshoot,
                   clientSetupStep, setupVisualPhase, settingsDraft, appearanceOptions,
                   pendingProactiveSelfie, tasks>>

\* ChatInput's handleSubmit passes the trimmed input on to handleSendMessage
handleSendMessage(inputValue) ==
    LET messageText == Trim(inputValue)
        trimmedMessage == Trim(messageText)
        branch == SendBranch(trimmedMessage)
    IN  /\ UserMayAct /\ RoomToSubmit
        /\ inputValue \in keyboard
        /\ ChatShown /\ ~isSendingMessage /\ messageText # <<>>
        /\ CASE branch = "start" -> StartCommand(trimmedMessage)
             [] branch = "photo" -> PhotoCommand(trimmedMessage)
             [] branch = "voice" -> VoiceCommand(trimmedMessage)
             [] branch = "repeat" -> RepeatCommand(trimmedMessage)
             [] branch = "accepted" -> OfferAccepted(trimmedMessage)
             [] branch = "declined" -> OfferDeclined(trimmedMessage)
             [] branch = "setup" -> SetupReply(trimmedMessage)
             [] branch = "chat" -> ChatTurn(trimmedMessage)
             [] OTHER -> Ignored(trimmedMessage)
        /\ last' = Ran(branch, trimmedMessage)
        /\ ops' = ops + 1
        /\ UNCHANGED isInitializing
        /\ EffectAfter
        /\ UNCHANGED keyboard

----------------------------------------------------------------------------
(* generatePhotoshootImages (generate-photoshoot-images.ts 78-135) *)

Shot(i) ==
    Lit(CASE i = 1 -> "<shot 1>" [] i = 2 -> "<shot 2>" [] i = 3 -> "<shot 3>"
          [] i = 4 -> "<shot 4>" [] OTHER -> "<shot 5>")

\* the images of the prompts in `succeeded`, in the order of the prompts
RECURSIVE Shots(_, _)
Shots(i, succeeded) ==
    IF i > 5 THEN <<>>
    ELSE (IF i \in succeeded THEN <<Shot(i)>> ELSE <<>>) \o Shots(i + 1, succeeded)

\* a variant of generatePhotoshootImagesFlow that gives up when any image fails
generatePhotoshootImagesFlow_AllOrNothing(prompts, succeeded) ==
    IF prompts = "none"
    THEN [photoshootImages |-> <<>>,
          error |-> Lit("Could not prepare varied scenes for the photoshoot.")]
    ELSE IF prompts = "threw"
    THEN [photoshootImages |-> <<>>, error |-> Lit("Error preparing photoshoot scenes.")]
    ELSE IF Len(Shots(1, succeeded)) < 5
    THEN [photoshootImages |-> <<>>,
          error |-> Lit("Failed to generate any images for the photoshoot.")]
    ELSE [photoshootImages |-> Shots(1, succeeded), error |-> <<>>]

\* prompts: "none" (no output or not 5 prompts), "threw", or "five";
\* succeeded: the prompts whose image generation returned a media url
generatePhotoshootImagesFlow(prompts, succeeded) ==
    IF prompts = "none"
    THEN [photoshootImages |-> <<>>,
          error |-> Lit("Could not prepare varied scenes for the photoshoot.")]
    ELSE IF prompts = "threw"
    THEN [photoshootImages |-> <<>>, error |-> Lit("Error preparing photoshoot scenes.")]
    ELSE IF Shots(1, succeeded) = <<>>
    THEN [photoshootImages |-> <<>>,
          error |-> Lit("Failed to generate any images for the photoshoot.")]
    ELSE [photoshootImages |-> Shots(1, succeeded), error |-> <<>>]

\* the sets of prompts whose image is generated: none, one, some, all
SucceededSets == {{}, {3}, {2, 4}, {1, 3, 5}, {1, 2, 3, 5}, 1..5}

\* outcomes of `await generatePhotoshootImages(...)`; `prompts` and `succeeded` tell
\* what happened inside the flow, `value` is what it returned
PhotoshootOutcomes ==
    {Threw("other")}
    \cup {[threw |-> FALSE, value |-> generatePhotoshootImagesFlow(p, {}),
           prompts |-> p, succeeded |-> {}] : p \in {"none", "threw"}}
    \cup {[threw |-> FALSE, value |-> generatePhotoshootImagesFlow("five", s),
           prompts |-> "five", succeeded |-> s] : s \in SucceededSets}

----------------------------------------------------------------------------
(* The rest of handleSendMessage, from its first await to its end *)

\* getSetupPrompt of /start returns or throws (page.tsx 209-220)
ResolveStart(i) ==
    /\ i \in DOMAIN tasks /\ tasks[i].op = "start"
    /\ \E r \in SetupPromptOutcomes(AI_SETUP_STEPS.INITIATE) :
          /\ last' = Done(i, <<r>>)
          /\ IF r.threw
             THEN UNCHANGED <<messages, clientSetupStep>>
             ELSE /\ messages' = addMessage(messages, AiText(r.value))
                  /\ clientSetupStep' = "AWAITING_USER_NAME"
    /\ isAiResponding' = FALSE
    /\ tasks' = Without(i)
    /\ UNCHANGED <<storage, appSettings, isInitializing, isGeneratingSelfie,
                   isGeneratingPhotoshoot, setupVisualPhase, settingsDraft,
                   appearanceOptions, pendingProactiveSelfie, calls, toasts, ops, run>>
    /\ EffectAfter
    /\ UNCHANGED keyboard

RECURSIVE AddImages(_, _)
AddImages(msgs, images) ==
    IF images = <<>> THEN msgs
    ELSE AddImages(addMessage(msgs, AiImage(Head(images))), Tail(images))

\* a variant of ResolvePhoto without the finally block: the flag stays up when
\* generatePhotoshootImages threw
ResolvePhoto_NoFinally(i) ==
    /\ i \in DOMAIN tasks /\ tasks[i].op = "photo"
    /\ \E r \in PhotoshootOutcomes :
          /\ last' = Done(i, <<r>>)
          /\ messages' =
            IF r.threw
            THEN addMessage(messages, AiText(Lit("Oh dear, something went wrong with the photoshoot! Let's try another time.")))
            ELSE IF r.value.photoshootImages # <<>>
            THEN addMessage(AddImages(messages, r.value.photoshootImages),
                            AiText(Lit("<photos sent>")))
            ELSE addMessage(messages,
                    AiText(Lit("I tried to do a photoshoot themed ") \o tasks[i].text
                           \o Lit(", but couldn't get any good shots right now. Maybe another time? ")
                           \o r.value.error))
    /\ isGeneratingPhotoshoot' = (last'.results[1].threw /\ isGeneratingPhotoshoot)
    /\ tasks' = Without(i)
    /\ UNCHANGED <<storage, appSettings, isInitializing, isAiResponding, isGeneratingSelfie,
                   clientSetupStep, setupVisualPhase, settingsDraft, appearanceOptions,
                   pendingProactiveSelfie, calls, toasts, ops, run>>
    /\ EffectAfter
    /\ UNCHANGED keyboard

\* generatePhotoshootImages returns or throws (page.tsx 607-623)
ResolvePhoto(i) ==
    /\ i \in DOMAIN tasks /\ tasks[i].op = "photo"
    /\ \E r \in PhotoshootOutcomes :
          /\ last' = Done(i, <<r>>)
          /\ messages' =
            IF r.threw
            THEN addMessage(messages, AiText(Lit("Oh dear, something went wrong with the photoshoot! Let's try another time.")))
            ELSE IF r.value.photoshootImages # <<>>
            THEN addMessage(AddImages(messages, r.value.photoshootImages),
                            AiText(Lit("<photos sent>")))
            ELSE addMessage(messages,
                    AiText(Lit("I tried to do a photoshoot themed ") \o tasks[i].text
                           \o Lit(", but couldn't get any good shots right now. Maybe another time? ")
                           \o r.value.error))
    /\ isGeneratingPhotoshoot' = FALSE
    /\ tasks' = Without(i)
    /\ UNCHANGED <<storage, appSettings, isInitializing, isAiResponding, isGeneratingSelfie,
                   clientSetupStep, setupVisualPhase, settingsDraft, appearanceOptions,
                   pendingProactiveSelfie, calls, toasts, ops, run>>
    /\ EffectAfter
    /\ UNCHANGED keyboard

\* generateSelfie of an accepted offer returns or throws (page.tsx 580-593, 337, 464-466)
ResolveAccepted(i) ==
    /\ i \in DOMAIN tasks /\ tasks[i].op = "accepted"
    /\ \E r \in SelfieOutcomes :
          /\ last' = Done(i, <<r>>)
          /\ messages' = addMessage(messages, SelfieMessage(r))
    /\ isGeneratingSelfie' = FALSE
    /\ pendingProactiveSelfie' = None
    /\ isAiResponding' = FALSE
    /\ tasks' = Without(i)
    /\ UNCHANGED <<storage, appSettings, isInitializing, isGeneratingPhotoshoot,
                   clientSetupStep, setupVisualPhase, settingsDraft, appearanceOptions,
                   calls, toasts, ops, run>>
    /\ EffectAfter
    /\ UNCHANGED keyboard

\* a variant of Catch that starts the wizard over whatever the step was
Catch_StartsOver(i, msgs0, calls0, run0, results0, kind) ==
    /\ settingsDraft' = DEFAULT_SETTINGS_DRAFT
    /\ setupVisualPhase' = "conversational_setup"
    /\ run' = NoRun
    /\ calls' = calls0
    /\ last' = Done(i, results0)
    /\ messages' = <<>>
    /\ clientSetupStep' = "AWAITING_AI_GREETING"

\* the catch block of handleSendMessage (page.tsx 437-463), entered with the
\* transcript msgs0, the calls calls0, the record run0 and the outcomes
\* results0 of task i so far
Catch(i, msgs0, calls0, run0, results0, kind) ==
    LET env == tasks[i].env
    IN  IF env.clientSetupStep # "CHAT_READY"
        THEN /\ settingsDraft' = DEFAULT_SETTINGS_DRAFT
             /\ setupVisualPhase' = "conversational_setup"
             /\ run' = NoRun
             /\ IF ~env.isInitializing /\ env.messages = <<>>
                THEN /\ calls' = Append(calls0,
                            SetupPromptCall(AI_SETUP_STEPS.INITIATE, <<>>, initialLanguageHint))
                     /\ \E g \in SetupPromptOutcomes(AI_SETUP_STEPS.INITIATE) :
                           /\ last' = Done(i, Append(results0, g))
                           /\ IF g.threw
                              THEN /\ messages' = <<>>
                                   /\ clientSetupStep' = "AWAITING_AI_GREETING"
                              ELSE /\ messages' = addMessage(<<>>, AiText(g.value))
                                   /\ clientSetupStep' = "AWAITING_USER_NAME"
                ELSE /\ calls' = calls0
                     /\ last' = Done(i, results0)
                     /\ messages' = <<>>
                     /\ clientSetupStep' = "AWAITING_AI_GREETING"
        ELSE /\ messages' = addMessage(msgs0, AiText(FriendlyErrorText(kind)))
             /\ calls' = calls0
             /\ run' = run0
             /\ last' = Done(i, results0)
             /\ UNCHANGED <<settingsDraft, setupVisualPhase, clientSetupStep>>

\* page.tsx 328-335 and 424-432: what a chat turn does with the outcome r of
\* continueConversation; keepsOffer tells whether a new offer outlives the
\* handler (page.tsx 337)
AfterContinue(i, r, keepsOffer) ==
    LET env == tasks[i].env
        settings == env.appSettings[1]
        conversationOutput == r.value
        replied == IF conversationOutput.responseText # <<>>
                   THEN addMessage(messages, AiText(conversationOutput.responseText))
                   ELSE messages
        sendsSelfie == conversationOutput.decision = "IMPLICIT_SELFIE_NOW"
                       /\ conversationOutput.selfieContext # <<>>
        makesOffer == ~sendsSelfie
                      /\ conversationOutput.decision = "PROACTIVE_SELFIE_OFFER"
                      /\ conversationOutput.selfieContext # <<>>
    IN  /\ IF sendsSelfie /\ SelfieGuard(env, settings)
           THEN /\ calls' = Append(calls, SelfieCall(env, settings,
                                                     conversationOutput.selfieContext,
                                                     conversationOutput.responseText))
                /\ \E s \in SelfieOutcomes :
                      /\ messages' = addMessage(replied, SelfieMessage(s))
                      /\ last' = Done(i, <<r, s>>)
                /\ isGeneratingSelfie' = FALSE
           ELSE /\ calls' = calls
                /\ messages' = replied
                /\ last' = Done(i, <<r>>)
                /\ UNCHANGED isGeneratingSelfie
        /\ pendingProactiveSelfie' =
              IF ~keepsOffer THEN None
              ELSE IF makesOffer THEN Some([context |-> conversationOutput.selfieContext])
              ELSE pendingProactiveSelfie
        /\ UNCHANGED <<settingsDraft, setupVisualPhase, clientSetupStep, run>>

\* continueConversation of a declined offer returns or throws (page.tsx 320-337, 437-466)
ResolveDeclined(i) ==
    /\ i \in DOMAIN tasks /\ tasks[i].op = "declined"
    /\ \E r \in ContinueOutcomes :
          IF r.threw
          THEN /\ Catch(i, messages, calls, run, <<r>>, r.error)
               /\ UNCHANGED <<pendingProactiveSelfie, isGeneratingSelfie>>
          ELSE AfterContinue(i, r, FALSE)
    /\ isAiResponding' = FALSE
    /\ tasks' = Without(i)
    /\ UNCHANGED <<storage, appSettings, isInitializing, isGeneratingPhotoshoot,
                   appearanceOptions, toasts, ops>>
    /\ EffectAfter
    /\ UNCHANGED keyboard

\* continueConversation of a chat turn returns or throws (page.tsx 417-432, 437-466)
ResolveChat(i) ==
    /\ i \in DOMAIN tasks /\ tasks[i].op = "chat"
    /\ \E r \in ContinueOutcomes :
          IF r.threw
          THEN /\ Catch(i, messages, calls, run, <<r>>, r.error)
               /\ UNCHANGED <<pendingProactiveSelfie, isGeneratingSelfie>>
          ELSE AfterContinue(i, r, TRUE)
    /\ isAiResponding' = FALSE
    /\ tasks' = Without(i)
    /\ UNCHANGED <<storage, appSettings, isInitializing, isGeneratingPhotoshoot,
                   appearanceOptions, toasts, ops>>
    /\ EffectAfter
    /\ UNCHANGED keyboard

\* getSetupPrompt of a wizard step returns or throws, and so does
\* generateAppearanceOptions after the last question (page.tsx 381-410, 437-466)
ResolveSetup(i) ==
    LET env == tasks[i].env
        plan == SetupPlan(env.clientSetupStep, env.settingsDraft, tasks[i].text)
        finalAppearanceDescription ==
            Or(plan.updatedSettingsDraft.appearanceDescription,
               DEFAULT_SETTINGS_DRAFT.appearanceDescription)
        portraitsCall == [fn |-> "generateAppearanceOptions",
                          appearanceDescription |-> finalAppearanceDescription]
        reAskCall == SetupPromptCall(AI_SETUP_STEPS.ASK_APPEARANCE,
                                     plan.updatedSettingsDraft.userName,
                                     Lit("Please describe your appearance again."))
    IN  /\ i \in DOMAIN tasks /\ tasks[i].op = "setup"
        /\ \E r \in SetupPromptOutcomes(plan.nextAiFlowStep) :
              IF r.threw
              THEN /\ Catch(i, messages, calls, run, <<r>>, r.error)
                   /\ UNCHANGED <<appearanceOptions, toasts>>
              ELSE LET asked == addMessage(messages, AiText(r.value))
                   IN  IF plan.nextAiFlowStep # AI_SETUP_STEPS.CONFIRM_GENERATION
                       THEN /\ messages' = asked
                            /\ clientSetupStep' = plan.nextClientStep
                            /\ last' = Done(i, <<r>>)
                            /\ UNCHANGED <<setupVisualPhase, settingsDraft, appearanceOptions,
                                           calls, toasts, run>>
                       ELSE IF finalAppearanceDescription = <<>>
                       THEN /\ toasts' = Append(toasts, "Error")
                            /\ UNCHANGED appearanceOptions
                            /\ \E q \in SetupPromptOutcomes(AI_SETUP_STEPS.ASK_APPEARANCE) :
                                  IF q.threw
                                  THEN Catch(i, asked, Append(calls, reAskCall), run,
                                             <<r, q>>, q.error)
                                  ELSE /\ messages' = addMessage(asked, AiText(q.value))
                                       /\ clientSetupStep' = "AWAITING_USER_APPEARANCE"
                                       /\ setupVisualPhase' = "conversational_setup"
                                       /\ calls' = Append(calls, reAskCall)
                                       /\ last' = Done(i, <<r, q>>)
                                       /\ UNCHANGED <<settingsDraft, run>>
                       ELSE \E a \in AppearanceOutcomes :
                               LET counted == [run EXCEPT !.portraitCalls = @ + 1]
                               IN  IF a.threw
                                   THEN /\ Catch(i, asked, Append(calls, portraitsCall),
                                                 counted, <<r, a>>, a.error)
                                        /\ UNCHANGED <<appearanceOptions, toasts>>
                                   ELSE /\ messages' = asked
                                        /\ appearanceOptions' = a.value
                                        /\ setupVisualPhase' = "appearance_selection"
                                        /\ clientSetupStep' = "SELECTING_AVATAR"
                                        /\ calls' = Append(calls, portraitsCall)
                                        /\ run' = counted
                                        /\ last' = Done(i, <<r, a>>)
                                        /\ UNCHANGED <<settingsDraft, toasts>>
        /\ isAiResponding' = FALSE
        /\ tasks' = Without(i)
        /\ UNCHANGED <<storage, appSettings, isInitializing, isGeneratingSelfie,
                       isGeneratingPhotoshoot, pendingProactiveSelfie, ops>>
        /\ EffectAfter
        /\ UNCHANGED keyboard

----------------------------------------------------------------------------
(* handleVoiceSelected (page.tsx 469-502), called by VoiceSelector *)

\* the voice names the selector can hand over; null is "use the default voice"
Voices == {None, Lit("<voice>")}

\* a variant of handleVoiceSelected that asks the appearance question again when
\* a profile with an avatar exists
handleVoiceSelected_AsksAgain(voiceName) ==
    LET newSettingsDraft == [settingsDraft EXCEPT !.selectedVoiceName = voiceName]
    IN  /\ UserMayAct
        /\ ~isInitializing /\ setupVisualPhase = "voice_selection" /\ ~isAiResponding
        /\ settingsDraft' = newSettingsDraft
        /\ toasts' = <<>>
        /\ last' = Ran("voiceSelected", voiceName)
        /\ run' = Recorded("voiceSelected", voiceName)
        /\ ops' = ops + 1
        /\ IF appSettings # None /\ appSettings[1].selectedAvatarDataUri = <<>>
           THEN LET updatedAppSettings == [appSettings[1] EXCEPT !.selectedVoiceName = voiceName]
                IN  /\ appSettings' = Some(updatedAppSettings)
                    /\ storage' = Persisted(Some(updatedAppSettings))
                    /\ messages' = addMessage(messages,
                          AiText(IF voiceName # <<>>
                                 THEN Lit("Okay, I'll use this voice from now on: ") \o voiceName
                                      \o Lit(".")
                                 ELSE Lit("Alright, I'll use my default voice.")))
                    /\ clientSetupStep' = "CHAT_READY"
                    /\ setupVisualPhase' = "chat_ready"
                    /\ isAiResponding' = FALSE
                    /\ calls' = <<>>
                    /\ UNCHANGED tasks
           ELSE /\ setupVisualPhase' = "conversational_setup"
                /\ isAiResponding' = TRUE
                /\ calls' = <<SetupPromptCall(AI_SETUP_STEPS.ASK_APPEARANCE,
                                  Or(newSettingsDraft.userName, DEFAULT_SETTINGS_DRAFT.userName),
                                  IF voiceName # <<>>
                                  THEN Lit("I've selected voice: ") \o voiceName
                                  ELSE Lit("I'll use the default voice."))>>
                /\ tasks' = Append(tasks, Task("voiceSelected", voiceName, ""))
                /\ UNCHANGED <<appSettings, storage, messages, clientSetupStep>>
        /\ UNCHANGED <<isInitializing, isGeneratingSelfie, isGeneratingPhotoshoot,
                       appearanceOptions, pendingProactiveSelfie>>
        /\ EffectAfter
        /\ UNCHANGED keyboard

\* page.tsx 469-502
handleVoiceSelected(voiceName) ==
    LET newSettingsDraft == [settingsDraft EXCEPT !.selectedVoiceName = voiceName]
    IN  /\ UserMayAct
        /\ ~isInitializing /\ setupVisualPhase = "voice_selection" /\ ~isAiResponding
        /\ settingsDraft' = newSettingsDraft
        /\ toasts' = <<>>
        /\ last' = Ran("voiceSelected", voiceName)
        /\ run' = Recorded("voiceSelected", voiceName)
        /\ ops' = ops + 1
        /\ IF appSettings # None /\ appSettings[1].selectedAvatarDataUri # <<>>
           THEN LET updatedAppSettings == [appSettings[1] EXCEPT !.selectedVoiceName = voiceName]
                IN  /\ appSettings' = Some(updatedAppSettings)
                    /\ storage' = Persisted(Some(updatedAppSettings))
                    /\ messages' = addMessage(messages,
                          AiText(IF voiceName # <<>>
                                 THEN Lit("Okay, I'll use this voice from now on: ") \o voiceName
                                      \o Lit(".")
                                 ELSE Lit("Alright, I'll use my default voice.")))
                    /\ clientSetupStep' = "CHAT_READY"
                    /\ setupVisualPhase' = "chat_ready"
                    /\ isAiResponding' = FALSE
                    /\ calls' = <<>>
                    /\ UNCHANGED tasks
           ELSE /\ setupVisualPhase' = "conversational_setup"
                /\ isAiResponding' = TRUE
                /\ calls' = <<SetupPromptCall(AI_SETUP_STEPS.ASK_APPEARANCE,
                                  Or(newSettingsDraft.userName, DEFAULT_SETTINGS_DRAFT.userName),
                                  IF voiceName # <<>>
                                  THEN Lit("I've selected voice: ") \o voiceName
                                  ELSE Lit("I'll use the default voice."))>>
                /\ tasks' = Append(tasks, Task("voiceSelected", voiceName, ""))
                /\ UNCHANGED <<appSettings, storage, messages, clientSetupStep>>
        /\ UNCHANGED <<isInitializing, isGeneratingSelfie, isGeneratingPhotoshoot,
                       appearanceOptions, pendingProactiveSelfie>>
        /\ EffectAfter
        /\ UNCHANGED keyboard

\* a variant of ResolveVoiceSelected without catch and finally: a rejected
\* getSetupPrompt ends the handler where it stands
ResolveVoiceSelected_Uncaught(i) ==
    /\ i \in DOMAIN tasks /\ tasks[i].op = "voiceSelected"
    /\ \E r \in SetupPromptOutcomes(AI_SETUP_STEPS.ASK_APPEARANCE) :
          /\ last' = Done(i, <<r>>)
          /\ IF r.threw
             THEN UNCHANGED <<messages, clientSetupStep, toasts, isAiResponding>>
             ELSE /\ messages' = addMessage(messages, AiText(r.value))
                  /\ clientSetupStep' = "AWAITING_USER_APPEARANCE"
                  /\ isAiResponding' = FALSE
                  /\ UNCHANGED toasts
    /\ tasks' = Without(i)
    /\ UNCHANGED <<storage, appSettings, isInitializing, isGeneratingSelfie,
                   isGeneratingPhotoshoot, setupVisualPhase, settingsDraft,
                   appearanceOptions, pendingProactiveSelfie, calls, ops, run>>
    /\ EffectAfter
    /\ UNCHANGED keyboard

\* getSetupPrompt of handleVoiceSelected returns or throws (page.tsx 493-500)
ResolveVoiceSelected(i) ==
    /\ i \in DOMAIN tasks /\ tasks[i].op = "voiceSelected"
    /\ \E r \in SetupPromptOutcomes(AI_SETUP_STEPS.ASK_APPEARANCE) :
          /\ last' = Done(i, <<r>>)
          /\ IF r.threw
             THEN /\ toasts' = Append(toasts, "Error")
                  /\ UNCHANGED <<messages, clientSetupStep>>
             ELSE /\ messages' = addMessage(messages, AiText(r.value))
                  /\ clientSetupStep' = "AWAITING_USER_APPEARANCE"
                  /\ UNCHANGED toasts
    /\ isAiResponding' = FALSE
    /\ tasks' = Without(i)
    /\ UNCHANGED <<storage, appSettings, isInitializing, isGeneratingSelfie,
                   isGeneratingPhotoshoot, setupVisualPhase, settingsDraft,
                   appearanceOptions, pendingProactiveSelfie, calls, ops, run>>
    /\ EffectAfter
    /\ UNCHANGED keyboard

----------------------------------------------------------------------------
(* handleAvatarSelection (page.tsx 504-559), called by a click on a portrait *)

\* the portraits the user picks among
Picks == {1, 4}

\* a variant of FinalAppSettings that takes the avatar from the draft
FinalAppSettings_AvatarOfDraft(currentDraft, selectedImageUri) ==
    [userName |-> currentDraft.userName,
     personalityTraits |-> currentDraft.personalityTraits,
     topicPreferences |-> currentDraft.topicPreferences,
     appearanceDescription |-> currentDraft.appearanceDescription,
     selectedVoiceName |-> currentDraft.selectedVoiceName,
     selectedAvatarDataUri |-> currentDraft.selectedAvatarDataUri,
     autoPlayAiMessages |-> currentDraft.autoPlayAiMessages]

\* page.tsx 530-538
FinalAppSettings(currentDraft, selectedImageUri) ==
    [userName |-> currentDraft.userName,
     personalityTraits |-> currentDraft.personalityTraits,
     topicPreferences |-> currentDraft.topicPreferences,
     appearanceDescription |-> currentDraft.appearanceDescription,
     selectedVoiceName |-> currentDraft.selectedVoiceName,
     selectedAvatarDataUri |-> selectedImageUri,
     autoPlayAiMessages |-> currentDraft.autoPlayAiMessages]

handleAvatarSelection(k) ==
    LET selectedImageUri == appearanceOptions[k]
        currentDraft == settingsDraft
        finalAppSettings == FinalAppSettings(currentDraft, selectedImageUri)
    IN  /\ UserMayAct
        /\ ~isInitializing /\ setupVisualPhase = "appearance_selection"
        /\ k \in 1..Len(appearanceOptions)
        /\ ~isSendingMessage
        /\ last' = Ran("avatar", selectedImageUri)
        /\ ops' = ops + 1
        /\ IF \/ currentDraft.userName = <<>> \/ currentDraft.personalityTraits = <<>>
              \/ currentDraft.topicPreferences = <<>> \/ currentDraft.appearanceDescription = <<>>
           THEN /\ toasts' = <<"Setup Incomplete">>
                /\ clientSetupStep' = "AWAITING_AI_GREETING"
                /\ messages' = <<>>
                /\ settingsDraft' = DEFAULT_SETTINGS_DRAFT
                /\ setupVisualPhase' = "conversational_setup"
                /\ run' = NoRun
                /\ UNCHANGED <<appSettings, storage, appearanceOptions>>
                /\ IF ~isInitializing /\ messages = <<>>
                   THEN /\ isAiResponding' = TRUE
                        /\ calls' = <<SetupPromptCall(AI_SETUP_STEPS.INITIATE, <<>>,
                                                      initialLanguageHint)>>
                        /\ tasks' = Append(tasks, Task("avatar", selectedImageUri, "restart"))
                   ELSE /\ isAiResponding' = FALSE
                        /\ calls' = <<>>
                        /\ UNCHANGED tasks
           ELSE /\ isAiResponding' = TRUE
                /\ appSettings' = Some(finalAppSettings)
                /\ storage' = Persisted(Some(finalAppSettings))
                /\ appearanceOptions' = <<>>
                /\ toasts' = <<>>
                /\ run' = Recorded("avatar", selectedImageUri)
                /\ calls' = <<[fn |-> "startConversation",
                               personalityTraits |-> finalAppSettings.personalityTraits,
                               topicPreferences |-> finalAppSettings.topicPreferences]>>
                /\ tasks' = Append(tasks, Task("avatar", selectedImageUri, "select"))
                /\ UNCHANGED <<messages, clientSetupStep, setupVisualPhase, settingsDraft>>
        /\ UNCHANGED <<isInitializing, isGeneratingSelfie, isGeneratingPhotoshoot,
                       pendingProactiveSelfie>>
        /\ EffectAfter
        /\ UNCHANGED keyboard

\* a variant of ResolveAvatar whose catch block only raises the toast
ResolveAvatar_ToastOnly(i) ==
    /\ i \in DOMAIN tasks /\ tasks[i].op = "avatar"
    /\ IF tasks[i].aux = "restart"
       THEN /\ \E g \in SetupPromptOutcomes(AI_SETUP_STEPS.INITIATE) :
                  /\ last' = Done(i, <<g>>)
                  /\ IF g.threw
                     THEN UNCHANGED <<messages, clientSetupStep>>
                     ELSE /\ messages' = addMessage(messages, AiText(g.value))
                          /\ clientSetupStep' = "AWAITING_USER_NAME"
            /\ UNCHANGED <<setupVisualPhase, toasts>>
       ELSE /\ \E r \in StartConversationOutcomes :
                  /\ last' = Done(i, <<r>>)
                  /\ IF r.threw
                     THEN /\ toasts' = Append(toasts, "Error")
                          /\ UNCHANGED <<messages, clientSetupStep, setupVisualPhase>>
                     ELSE /\ clientSetupStep' = "CHAT_READY"
                          /\ setupVisualPhase' = "chat_ready"
                          /\ messages' =
                               <<AiText(Lit("Great choice, ")
                                        \o tasks[i].env.settingsDraft.userName
                                        \o Lit("! I'm all set up. ") \o r.value)>>
                          /\ UNCHANGED toasts
    /\ isAiResponding' = FALSE
    /\ tasks' = Without(i)
    /\ UNCHANGED <<storage, appSettings, isInitializing, isGeneratingSelfie,
                   isGeneratingPhotoshoot, settingsDraft, appearanceOptions,
                   pendingProactiveSelfie, calls, ops, run>>
    /\ EffectAfter
    /\ UNCHANGED keyboard

\* the call handleAvatarSelection awaits returns or throws (page.tsx 520-524, 543-558)
ResolveAvatar(i) ==
    /\ i \in DOMAIN tasks /\ tasks[i].op = "avatar"
    /\ IF tasks[i].aux = "restart"
       THEN /\ \E g \in SetupPromptOutcomes(AI_SETUP_STEPS.INITIATE) :
                  /\ last' = Done(i, <<g>>)
                  /\ IF g.threw
                     THEN UNCHANGED <<messages, clientSetupStep>>
                     ELSE /\ messages' = addMessage(messages, AiText(g.value))
                          /\ clientSetupStep' = "AWAITING_USER_NAME"
            /\ UNCHANGED <<setupVisualPhase, toasts>>
       ELSE /\ \E r \in StartConversationOutcomes :
                  /\ last' = Done(i, <<r>>)
                  /\ IF r.threw
                     THEN /\ toasts' = Append(toasts, "Error")
                          /\ messages' = <<AiText(Lit("I'm all set with my new look, but I'm having a little trouble starting our chat. Let's try again in a moment!"))>>
                     ELSE /\ messages' =
                               <<AiText(Lit("Great choice, ")
                                        \o tasks[i].env.settingsDraft.userName
                                        \o Lit("! I'm all set up. ") \o r.value)>>
                          /\ UNCHANGED toasts
            /\ clientSetupStep' = "CHAT_READY"
            /\ setupVisualPhase' = "chat_ready"
    /\ isAiResponding' = FALSE
    /\ tasks' = Without(i)
    /\ UNCHANGED <<storage, appSettings, isInitializing, isGeneratingSelfie,
                   isGeneratingPhotoshoot, settingsDraft, appearanceOptions,
                   pendingProactiveSelfie, calls, ops, run>>
    /\ EffectAfter
    /\ UNCHANGED keyboard

----------------------------------------------------------------------------
(* The selfie button (ChatInput handleSelfieRequest, page.tsx 651-656,      *)
(* 742-746 and 561-580)                                                     *)

onSelfieRequest ==
    /\ UserMayAct /\ RoomToSubmit
    /\ ChatShown /\ ~isSendingMessage
    /\ setupVisualPhase = "conversational_setup" => clientSetupStep = "CHAT_READY"
    /\ appSettings # None /\ pendingProactiveSelfie = None
    /\ SelfieGuard(Env, appSettings[1])
    /\ isGeneratingSelfie' = TRUE
    /\ calls' = <<SelfieCall(Env, appSettings[1], Lit("User clicked the selfie button"), <<>>)>>
    /\ tasks' = Append(tasks, Task("selfie", <<>>, ""))
    /\ toasts' = <<>>
    /\ last' = Ran("selfie", <<>>)
    /\ run' = Recorded("selfie", <<>>)
    /\ ops' = ops + 1
    /\ UNCHANGED <<storage, appSettings, messages, isInitializing, isAiResponding,
                   isGeneratingPhotoshoot, clientSetupStep, setupVisualPhase, settingsDraft,
                   appearanceOptions, pendingProactiveSelfie>>
    /\ EffectAfter
    /\ UNCHANGED keyboard

\* generateSelfie of the selfie button returns or throws (page.tsx 580-593)
ResolveSelfie(i) ==
    /\ i \in DOMAIN tasks /\ tasks[i].op = "selfie"
    /\ \E r \in SelfieOutcomes :
          /\ last' = Done(i, <<r>>)
          /\ messages' = addMessage(messages, SelfieMessage(r))
    /\ isGeneratingSelfie' = FALSE
    /\ tasks' = Without(i)
    /\ UNCHANGED <<storage, appSettings, isInitializing, isAiResponding,
                   isGeneratingPhotoshoot, clientSetupStep, setupVisualPhase, settingsDraft,
                   appearanceOptions, pendingProactiveSelfie, calls, toasts, ops, run>>
    /\ EffectAfter
    /\ UNCHANGED keyboard

----------------------------------------------------------------------------
(* The system *)

\* the places of `tasks` a suspended handler can be in
TaskSlots == 1..MaxTasks

Next ==
    \/ loadStateAndInitiateSetup
    \/ runAISetupStep
    \/ \E inputValue \in UNION Keyboards : handleSendMessage(inputValue)
    \/ \E voiceName \in Voices : handleVoiceSelected(voiceName)
    \/ \E k \in Picks : handleAvatarSelection(k)
    \/ onSelfieRequest
    \/ \E i \in TaskSlots : ResolveLoad(i)
    \/ \E i \in TaskSlots : ResolveEffect(i)
    \/ \E i \in TaskSlots : ResolveStart(i)
    \/ \E i \in TaskSlots : ResolvePhoto(i)
    \/ \E i \in TaskSlots : ResolveAccepted(i)
    \/ \E i \in TaskSlots : ResolveDeclined(i)
    \/ \E i \in TaskSlots : ResolveChat(i)
    \/ \E i \in TaskSlots : ResolveSetup(i)
    \/ \E i \in TaskSlots : ResolveVoiceSelected(i)
    \/ \E i \in TaskSlots : ResolveAvatar(i)
    \/ \E i \in TaskSlots : ResolveSelfie(i)

Spec == Init /\ [][Next]_vars

----------------------------------------------------------------------------
(* Properties *)

\* the handler `last` tells of is op and it has run to its end
Settled(op) == last.op = op /\ Idle

\* the external calls of the last handler to the function fn
CallsTo(fn) == {k \in DOMAIN calls : calls[k].fn = fn}

\* the outcome of the first call the last handler awaited is a returned value
FirstReturned == last.results # <<>> /\ ~last.results[1].threw

\* handleSendMessage last ran on a text that is /start in some letter case
StartHandled == last.op \notin {"none", "load", "effect", "voiceSelected", "avatar", "selfie"}
                /\ ToLowerCase(last.text) = Chars("/start")

\* what /start clears, whatever the state was
StartCleared ==
    /\ appSettings = None
    /\ settingsDraft = DEFAULT_SETTINGS_DRAFT
    /\ appearanceOptions = <<>>
    /\ pendingProactiveSelfie = None
    /\ storage = Absent

\* C1 (as amended): once handleSendMessage has handled /start (any letter
\* case, trimmed), the Profile is null, the draft is the default draft, there
\* are no appearance options, no offer is pending and the stored record is
\* removed; the transcript is empty and the wizard is at its greeting step,
\* unless the transcript was already empty and the greeting the handler then
\* requests itself was returned: then the transcript is that greeting alone
\* and the wizard awaits the name.
C1_StartResets ==
    (StartHandled /\ Idle) =>
        /\ StartCleared
        /\ IF FirstReturned
           THEN /\ last.before = <<>>
                /\ messages = <<AiText(last.results[1].value)>>
                /\ clientSetupStep = "AWAITING_USER_NAME"
           ELSE /\ messages = <<>>
                /\ clientSetupStep = "AWAITING_AI_GREETING"

\* /start was handled in a session with a loaded Profile and a transcript
C1_Witness ==
    /\ StartHandled /\ Idle
    /\ last.before # <<>> /\ last.before[1].text # <<>>
    /\ last.before[1].text[1] = "Welcome back, "
    /\ appSettings = None /\ messages = <<>> /\ storage = Absent

\* C1 as stated: after /start the transcript is always empty and the wizard at
\* its greeting step
C1_AsStated ==
    (StartHandled /\ Idle) =>
        /\ StartCleared
        /\ messages = <<>>
        /\ clientSetupStep = "AWAITING_AI_GREETING"

\* C2: pendingProactiveSelfie never holds more than one offer, and an offer
\* that is pending is never replaced by another one: it stays, or it goes.
C2_OneOffer ==
    [][/\ Len(pendingProactiveSelfie') <= 1
       /\ (pendingProactiveSelfie # None /\ pendingProactiveSelfie' # None)
              => pendingProactiveSelfie' = pendingProactiveSelfie]_vars

\* a further PROACTIVE_SELFIE_OFFER decision arrived in the turn that declined an offer
C2_Witness ==
    /\ Settled("declined") /\ FirstReturned
    /\ last.results[1].value.decision = "PROACTIVE_SELFIE_OFFER"
    /\ last.results[1].value.selfieContext # <<>>
    /\ Len(pendingProactiveSelfie) <= 1

\* C3 as stated: when the turn that answers a pending offer is over, the offer
\* is no longer pending
C3_AsStated ==
    (last.op \in {"accepted", "declined"} /\ Idle) => pendingProactiveSelfie = None

\* the acknowledgement of a declined offer
Acknowledgement == AiText(Lit("Alright, no worries!"))

\* C4: the turn that declines an offer shows the user's message, then exactly
\* one acknowledgement, calls continueConversation with that same message as
\* lastUserMessage, and then shows an assistant text: the returned
\* responseText, or the apology when the call threw.
C4_DeclinedContinues ==
    Settled("declined") =>
        LET n == Len(last.before)
        IN  /\ Len(calls) >= 1
            /\ calls[1].fn = "continueConversation"
            /\ calls[1].lastUserMessage = last.text
            /\ Cardinality(CallsTo("continueConversation")) = 1
            /\ Len(messages) >= n + 3
            /\ SubSeq(messages, 1, n) = last.before
            /\ messages[n + 1] = UserText(last.text)
            /\ messages[n + 2] = Acknowledgement
            /\ Cardinality({k \in (n + 1)..Len(messages) : messages[k] = Acknowledgement}) = 1
            /\ messages[n + 3].text # <<>>
            /\ messages[n + 3] =
                  IF last.results[1].threw
                  THEN AiText(FriendlyErrorText(last.results[1].error))
                  ELSE AiText(last.results[1].value.responseText)

\* an offer was declined and the continuation's reply was shown
C4_Witness ==
    /\ Settled("declined") /\ FirstReturned
    /\ Len(messages) = Len(last.before) + 3
    /\ messages[Len(messages)] = AiText(last.results[1].value.responseText)

\* C5 as stated: the turn that accepts an offer issues exactly one generateSelfie
\* request, whose userSelfieRequestText is the context stored in the offer
C5_AsStated ==
    (last.op = "accepted" /\ last.results = <<>> /\ pendingProactiveSelfie # None) =>
        /\ Len(calls) = 1
        /\ calls[1].fn = "generateSelfie"
        /\ calls[1].userSelfieRequestText = pendingProactiveSelfie[1].context

\* C6 as stated: after a turn in which continueConversation returned
\* PROACTIVE_SELFIE_OFFER with context c, on a chat turn or on the continuation
\* of a declined offer, the offer {context: c} is pending and no image was requested
C6_AsStated ==
    (/\ last.op \in {"chat", "declined"} /\ Idle /\ FirstReturned
     /\ last.results[1].value.decision = "PROACTIVE_SELFIE_OFFER"
     /\ last.results[1].value.selfieContext # <<>>)
    => /\ pendingProactiveSelfie = Some([context |-> last.results[1].value.selfieContext])
       /\ CallsTo("generateSelfie") = {}

\* the prompt's output decided on a selfie and gave no context for it
DecisionWithoutContext(output) ==
    /\ output.defined
    /\ output.decision \in {"IMPLICIT_SELFIE_NOW", "PROACTIVE_SELFIE_OFFER"}
    /\ output.selfieContext = <<>>
    /\ output.responseText # <<>>

\* C7: when the prompt's output has decision IMPLICIT_SELFIE_NOW or
\* PROACTIVE_SELFIE_OFFER, no selfieContext and a non-empty responseText,
\* continueConversation returns NORMAL_RESPONSE with that responseText, the
\* text is shown, no selfie is requested and no offer is made.
C7_FailSoft ==
    (/\ last.op \in {"chat", "declined"} /\ FirstReturned
     /\ DecisionWithoutContext(last.results[1].output))
    => /\ last.results[1].value =
             FlowOutput(last.results[1].output.responseText, "NORMAL_RESPONSE", <<>>)
       /\ messages[Len(messages)] = AiText(last.results[1].output.responseText)
       /\ CallsTo("generateSelfie") = {}
       /\ pendingProactiveSelfie = None

\* a chat turn whose prompt output offered a selfie without a context
C7_Witness ==
    /\ last.op = "chat" /\ FirstReturned
    /\ DecisionWithoutContext(last.results[1].output)
    /\ last.results[1].output.decision = "PROACTIVE_SELFIE_OFFER"

\* the four texts of a draft or a Profile are set
TextsSet(p) ==
    /\ p.userName # <<>> /\ p.personalityTraits # <<>>
    /\ p.topicPreferences # <<>> /\ p.appearanceDescription # <<>>

\* the avatar picker is on screen (page.tsx 700)
PickerShown == setupVisualPhase = "appearance_selection" /\ appearanceOptions # <<>>

\* since the wizard started, the user answered the name, personality, topics,
\* voice and appearance questions in turn, declined the voice, and picked an avatar
FullSetup ==
    /\ Len(run.path) = 6
    /\ \A k \in 1..5 : run.path[k].op = "setup"
    /\ run.path[1].step = "AWAITING_USER_NAME"
    /\ run.path[2].step = "AWAITING_USER_PERSONALITY"
    /\ run.path[3].step = "AWAITING_USER_TOPICS"
    /\ run.path[4].step = "AWAITING_USER_VOICE_DECISION"
    /\ run.path[5].step = "AWAITING_USER_APPEARANCE"
    /\ run.path[6].op = "avatar" /\ run.path[6].step = "SELECTING_AVATAR"

\* C8: whenever the avatar picker is shown the draft's userName,
\* personalityTraits, topicPreferences and appearanceDescription are non-empty,
\* and from handleAvatarSelection on the Profile is complete: those four and
\* selectedAvatarDataUri are non-empty.
C8_WizardComplete ==
    /\ PickerShown => TextsSet(settingsDraft)
    /\ last.op = "avatar" => (appSettings # None /\ IsComplete(appSettings[1]))

\* handleAvatarSelection has just run at the end of a full setup
C8_Witness ==
    /\ FullSetup /\ last.op = "avatar" /\ last.results = <<>>
    /\ appSettings # None /\ IsComplete(appSettings[1])

\* C9: the picker shows 4 portraits; after a full setup with the voice
\* declined in which startConversation returned, generateAppearanceOptions
\* was requested exactly once, the Profile's userName, personalityTraits,
\* topicPreferences and appearanceDescription are the replies given at those
\* steps, selectedAvatarDataUri is the picked portrait, selectedVoiceName is
\* null, the step is CHAT_READY and the transcript is one assistant text, the
\* opening line.
C9_FullSetup ==
    /\ PickerShown => Len(appearanceOptions) = 4
    /\ (FullSetup /\ Settled("avatar") /\ FirstReturned) =>
          /\ run.portraitCalls = 1
          /\ appSettings # None
          /\ appSettings[1].userName = run.path[1].text
          /\ appSettings[1].personalityTraits = run.path[2].text
          /\ appSettings[1].topicPreferences = run.path[3].text
          /\ appSettings[1].appearanceDescription = run.path[5].text
          /\ appSettings[1].selectedAvatarDataUri = run.path[6].text
          /\ appSettings[1].selectedVoiceName = None
          /\ storage = Persisted(appSettings)
          /\ clientSetupStep = "CHAT_READY"
          /\ messages = <<AiText(Lit("Great choice, ") \o run.path[1].text
                                 \o Lit("! I'm all set up. ") \o last.results[1].value)>>

\* a full setup has ended with the opening line
C9_Witness ==
    /\ FullSetup /\ Settled("avatar") /\ FirstReturned
    /\ clientSetupStep = "CHAT_READY" /\ Len(messages) = 1
    /\ run.path[1].text # run.path[2].text

\* C10 as stated: a reply at AWAITING_USER_VOICE_DECISION with an affirmative
\* token and no negative token moves the wizard to SELECTING_VOICE and calls
\* no text generator
C10_AsStated ==
    (/\ last.op = "setup" /\ last.step = "AWAITING_USER_VOICE_DECISION"
     /\ IsAffirmative(last.text))
    => /\ clientSetupStep = "SELECTING_VOICE"
       /\ setupVisualPhase = "voice_selection"
       /\ calls = <<>>

\* the reply holds an affirmative keyword as a word (page.tsx 298-304)
AffirmativeToken(trimmedMessage) ==
    \E i \in 1..Len(affirmativeKeywords) :
        ArrayIncludes(SplitWords(ToLowerCase(trimmedMessage)), affirmativeKeywords[i])

\* the reply holds a negative keyword (page.tsx 306-312)
NegativeToken(trimmedMessage) ==
    \E i \in 1..Len(negativeKeywords) :
        Includes(ToLowerCase(trimmedMessage), negativeKeywords[i])

\* C11 as stated: a reply at AWAITING_USER_VOICE_DECISION that holds both an
\* affirmative and a negative token is taken as declined: the draft's
\* selectedVoiceName is null, the step is never SELECTING_VOICE and, once the
\* next question has been returned, it is AWAITING_USER_APPEARANCE
C11_AsStated ==
    (/\ last.op = "setup" /\ last.step = "AWAITING_USER_VOICE_DECISION"
     /\ AffirmativeToken(last.text) /\ NegativeToken(last.text))
    => /\ clientSetupStep # "SELECTING_VOICE"
       /\ settingsDraft.selectedVoiceName = None
       /\ (Idle /\ FirstReturned) => clientSetupStep = "AWAITING_USER_APPEARANCE"

\* the values `last.op` takes for handleSendMessage: the branches of the handler
SendOps == {"start", "photo", "voice", "repeat", "accepted", "declined", "setup", "chat", "ignored"}

\* this step is the user's submission of a message; last'.text is the message, trimmed
Submitted == ops' = ops + 1 /\ last'.op \in SendOps

\* the message is the /repeat command
IsRepeat(trimmedMessage) == ToLowerCase(trimmedMessage) = Chars("/repeat")

\* the message is a /photo command with something after it
IsPhoto(trimmedMessage) == StartsWith(ToLowerCase(trimmedMessage), Chars("/photo "))

\* C12: with a null Profile, /repeat and /photo <text> raise a notice and
\* nothing else: the Profile, the stored record, the draft, the step, the
\* phase, the pending offer, the transcript and the appearance options are
\* unchanged, no handler is left waiting and no generator is called.
C12_GatedCommands ==
    [][(/\ Submitted /\ appSettings = None
        /\ (IsRepeat(last'.text) \/ IsPhoto(last'.text)))
       => /\ UNCHANGED <<appSettings, storage, settingsDraft, clientSetupStep,
                         setupVisualPhase, pendingProactiveSelfie, messages,
                         appearanceOptions, tasks, isAiResponding,
                         isGeneratingSelfie, isGeneratingPhotoshoot>>
          /\ calls' = <<>>
          /\ toasts' = <<IF IsRepeat(last'.text) THEN "Voice Playback" ELSE "Photoshoot Error">>]_vars

\* during the wizard, with no Profile, both /repeat and /photo <text> were
\* sent, and the notice of the last one is up
C12_Witness ==
    /\ appSettings = None /\ storage = Absent
    /\ \E j, k \in DOMAIN run.path : IsRepeat(run.path[j].text) /\ IsPhoto(run.path[k].text)
    /\ IsPhoto(last.text) /\ toasts = <<"Photoshoot Error">> /\ calls = <<>>
    /\ messages = last.before /\ clientSetupStep = last.step

\* the usage hint of the /photo command (page.tsx 252)
PhotoUsageHint ==
    AiText(Lit("Please provide a description for the photoshoot after the /photo command. ..."))

\* a /photo input whose description is empty once an inline image is taken out:
\* /photo alone (whitespace after it is trimmed away) or /photo and a data URI only
EmptyPhoto(trimmedMessage, currentAppSettings) ==
    \/ ToLowerCase(trimmedMessage) = Chars("/photo")
    \/ /\ IsPhoto(trimmedMessage)
       /\ PhotoArguments(trimmedMessage, currentAppSettings).photoshootDescription = <<>>

\* C13 as stated: with a Profile, a /photo input with an empty description
\* appends exactly one usage hint, calls no generator and leaves the step and
\* the pending offer as they were
C13_AsStated ==
    (/\ last.op \in SendOps /\ appSettings # None
     /\ EmptyPhoto(last.text, appSettings[1]))
    => /\ messages = Append(last.before, PhotoUsageHint)
       /\ calls = <<>>
       /\ clientSetupStep = last.step
       /\ Idle

\* the Profile or the draft holds a userName the user gave
NameGiven ==
    \/ appSettings # None /\ appSettings[1].userName # <<>>
    \/ settingsDraft.userName \notin {<<>>, DEFAULT_USERNAME}

\* C14 as stated: /voice without a userName given by the user raises a notice
\* and changes neither the step nor the transcript; otherwise it moves to
\* SELECTING_VOICE
C14_AsStated ==
    last.op = "voice" =>
        IF NameGiven
        THEN clientSetupStep = "SELECTING_VOICE"
        ELSE /\ clientSetupStep = last.step
             /\ messages = last.before
             /\ toasts = <<"Voice Change">>

\* the confirmation /repeat shows for the new value of the flag (page.tsx 279)
RepeatConfirmation(newAutoPlayState) ==
    AiText(IF newAutoPlayState THEN Lit("Automatic voice playback enabled.")
                               ELSE Lit("Automatic voice playback disabled."))

\* C15: with a Profile, /repeat negates autoPlayAiMessages, persists the
\* Profile, appends one confirmation and changes nothing else: the other
\* Profile fields, the step, the phase, the draft, the pending offer stay and
\* no generator is called.  When the /repeat follows a /repeat directly (the
\* transcript ends with that one's confirmation), the flag is back at the value
\* it had before the first of the two.
C15_RepeatToggles ==
    [][(Submitted /\ appSettings # None /\ IsRepeat(last'.text))
       => LET flag == appSettings[1].autoPlayAiMessages
          IN  /\ appSettings' = Some([appSettings[1] EXCEPT !.autoPlayAiMessages = ~flag])
              /\ storage' = Persisted(appSettings')
              /\ messages' = Append(messages, RepeatConfirmation(~flag))
              /\ UNCHANGED <<clientSetupStep, setupVisualPhase, settingsDraft,
                             pendingProactiveSelfie, appearanceOptions, tasks,
                             isAiResponding, isGeneratingSelfie, isGeneratingPhotoshoot>>
              /\ calls' = <<>>
              /\ \A b \in BOOLEAN :
                    (messages # <<>> /\ messages[Len(messages)] = RepeatConfirmation(b))
                    => appSettings'[1].autoPlayAiMessages = ~b]_vars

\* /repeat was sent twice in a row: playback was switched on and then off again
C15_Witness ==
    /\ last.op = "repeat" /\ appSettings # None
    /\ last.before # <<>>
    /\ last.before[Len(last.before)] = RepeatConfirmation(TRUE)
    /\ messages = Append(last.before, RepeatConfirmation(FALSE))
    /\ ~appSettings[1].autoPlayAiMessages
    /\ storage = Persisted(appSettings)

\* a transcript entry that is an image
IsImage(m) == m.imageUrl # <<>>

\* the text that reports a photoshoot without any image (page.tsx 616)
IsTotalFailure(m) == m.text # <<>> /\ m.text[1] = "I tried to do a photoshoot themed "

\* the confirmation that closes a photoshoot (page.tsx 614)
PhotosSent == AiText(Lit("<photos sent>"))

\* C16: when the flow had its 5 prompts and k of the 5 images were generated,
\* the transcript gains exactly k image messages, those of the prompts that
\* succeeded, in the order of the prompts; for k >= 1 they are followed directly
\* by one confirmation text, which ends the turn, and no total-failure text is
\* shown; for k = 0 no image is shown and exactly one total-failure text.
C16_PartialPhotoshoot ==
    (Settled("photo") /\ FirstReturned /\ last.results[1].prompts = "five") =>
        LET s == last.results[1].succeeded
            k == Cardinality(s)
            gained == SubSeq(messages, Len(last.before) + 1, Len(messages))
            images == SelectSeq(gained, IsImage)
            failures == {j \in DOMAIN gained : IsTotalFailure(gained[j])}
            nth(j) == CHOOSE i \in s : Cardinality({x \in s : x <= i}) = j
        IN  /\ Len(images) = k
            /\ \A j \in 1..k : images[j] = AiImage(Shot(nth(j)))
            /\ IF k >= 1
               THEN /\ Len(gained) > k
                    /\ SubSeq(gained, Len(gained) - k, Len(gained) - 1) = images
                    /\ gained[Len(gained)] = PhotosSent
                    /\ Cardinality({j \in DOMAIN gained : gained[j] = PhotosSent}) = 1
                    /\ failures = {}
               ELSE /\ failures = {Len(gained)}
                    /\ PhotosSent \notin {gained[j] : j \in DOMAIN gained}

\* prompts 2 and 4 of a photoshoot failed and the other three images were shown
C16_Witness ==
    /\ Settled("photo") /\ FirstReturned
    /\ last.results[1].prompts = "five" /\ last.results[1].succeeded = {1, 3, 5}
    /\ Len(messages) >= 4
    /\ SubSeq(messages, Len(messages) - 3, Len(messages))
          = <<AiImage(Shot(1)), AiImage(Shot(3)), AiImage(Shot(5)), PhotosSent>>

\* this step ends the handler op, whose first awaited call threw
FailedIn(op) ==
    /\ last.op = op /\ last.results = <<>>
    /\ last'.op = op /\ last'.results # <<>> /\ last'.results[1].threw

\* C17: when continueConversation throws on a chat turn in CHAT_READY, the
\* handler ends in the same step: exactly one apology, a non-empty assistant
\* text, is appended to the earlier transcript and the user's message, the step
\* stays CHAT_READY, the Profile and the stored record are the ones of the
\* turn's start, and isAiResponding is false with the chat input free again.
C17_ChatFailure ==
    [][FailedIn("chat")
       => /\ messages = Append(last.before, UserText(last.text))
          /\ messages' = Append(messages, AiText(FriendlyErrorText(last'.results[1].error)))
          /\ messages'[Len(messages')].text # <<>>
          /\ last.step = "CHAT_READY" /\ clientSetupStep' = "CHAT_READY"
          /\ setupVisualPhase' = setupVisualPhase
          /\ appSettings # None /\ appSettings' = appSettings
          /\ \A k \in DOMAIN tasks : tasks[k].env.appSettings = appSettings
          /\ storage' = storage
          /\ tasks' = <<>>
          /\ ~isAiResponding' /\ ChatShown' /\ ~isSendingMessage']_vars

\* a chat turn has ended with the apology for an overloaded service
C17_Witness ==
    /\ Settled("chat") /\ last.results[1].threw /\ last.results[1].error = "503"
    /\ messages = last.before \o <<UserText(last.text), AiText(FriendlyErrorText("503"))>>
    /\ clientSetupStep = "CHAT_READY" /\ ~isAiResponding

\* the outcome of a generateSelfie call is a failure: a throw, or a result
\* without selfieDataUri
SelfieFailed(s) == s.threw \/ s.value = <<>>

\* C18: when the selfie requested for an IMPLICIT_SELFIE_NOW decision fails,
\* the turn still ends: the transcript is the earlier one, the user's message
\* (after a declined offer, the acknowledgement too), the reply text and then
\* exactly one apologetic text, with no image; the step remains CHAT_READY,
\* the Profile stays and isGeneratingSelfie and isAiResponding are false.
C18_SelfieFailure ==
    (/\ last.op \in {"chat", "declined"} /\ Idle /\ Len(last.results) = 2
     /\ SelfieFailed(last.results[2]))
    => LET reply == last.results[1].value
           shown == last.before \o <<UserText(last.text)>>
                    \o (IF last.op = "declined" THEN <<Acknowledgement>> ELSE <<>>)
                    \o <<AiText(reply.responseText)>>
       IN  /\ reply.decision = "IMPLICIT_SELFIE_NOW"
           /\ Len(messages) = Len(shown) + 1
           /\ SubSeq(messages, 1, Len(shown)) = shown
           /\ messages[Len(messages)].sender = "ai"
           /\ messages[Len(messages)].text # <<>>
           /\ messages[Len(messages)].imageUrl = <<>>
           /\ \A j \in (Len(last.before) + 1)..Len(messages) : ~IsImage(messages[j])
           /\ clientSetupStep = "CHAT_READY"
           /\ appSettings # None
           /\ ~isGeneratingSelfie /\ ~isAiResponding

\* a chat turn decided to send a selfie at once and generateSelfie threw
C18_Witness ==
    /\ Settled("chat") /\ Len(last.results) = 2
    /\ last.results[1].value.decision = "IMPLICIT_SELFIE_NOW"
    /\ last.results[2].threw
    /\ Len(messages) = Len(last.before) + 3
    /\ clientSetupStep = "CHAT_READY"

\* the handler of the appearance reply has ended and generateAppearanceOptions threw
PortraitsFailed ==
    /\ Settled("setup") /\ last.step = "AWAITING_USER_APPEARANCE"
    /\ Len(last.results) >= 2 /\ ~last.results[1].threw /\ last.results[2].threw

\* C19 as stated: when generateAppearanceOptions fails after the appearance
\* reply, the wizard is back at AWAITING_USER_APPEARANCE, the draft still holds
\* what was collected before, and the transcript ends with a re-prompt
C19_AsStated ==
    PortraitsFailed =>
        /\ clientSetupStep = "AWAITING_USER_APPEARANCE"
        /\ settingsDraft.userName # DEFAULT_USERNAME
        /\ settingsDraft.personalityTraits # DEFAULT_PERSONALITY_TRAITS
        /\ settingsDraft.topicPreferences # DEFAULT_TOPIC_PREFERENCES
        /\ messages # <<>> /\ messages[Len(messages)].sender = "ai"

----------------------------------------------------------------------------
(* The defensive check of handleAvatarSelection (page.tsx 509-526).        *)
(* The wizard never produces a draft with a required text missing           *)
(* (C8_WizardComplete), so under Spec the check never fails.  To exercise   *)
(* it, SpecDefensive has, besides the initial states of Spec, the avatar    *)
(* picker on screen with such a draft; every behaviour of Spec is a         *)
(* behaviour of SpecDefensive.                                              *)

\* drafts with a required text missing
IncompleteDrafts ==
    { [DEFAULT_SETTINGS_DRAFT EXCEPT !.userName = <<>>],
      [DEFAULT_SETTINGS_DRAFT EXCEPT !.personalityTraits = <<>>],
      [DEFAULT_SETTINGS_DRAFT EXCEPT !.topicPreferences = <<>>],
      [DEFAULT_SETTINGS_DRAFT EXCEPT !.appearanceDescription = <<>>],
      [DEFAULT_SETTINGS_DRAFT EXCEPT !.userName = <<>>, !.appearanceDescription = <<>>] }

\* the avatar picker is on screen and the draft lacks a required text
InitIncompleteDraft ==
    /\ storage = Absent
    /\ appSettings = None
    /\ messages = <<AiText(Lit(AI_SETUP_STEPS.ASK_APPEARANCE)), UserText(<<"t","a","l","l">>),
                    AiText(Lit(AI_SETUP_STEPS.CONFIRM_GENERATION))>>
    /\ isInitializing = FALSE
    /\ isAiResponding = FALSE
    /\ isGeneratingSelfie = FALSE
    /\ isGeneratingPhotoshoot = FALSE
    /\ clientSetupStep = "SELECTING_AVATAR"
    /\ setupVisualPhase = "appearance_selection"
    /\ settingsDraft \in IncompleteDrafts
    /\ appearanceOptions = [i \in 1..4 |-> Portrait(i)]
    /\ pendingProactiveSelfie = None
    /\ tasks = <<>>
    /\ effectDue = FALSE
    /\ calls = <<>>
    /\ toasts = <<>>
    /\ last = NoLast
    /\ ops = 0
    /\ run = NoRun
    /\ keyboard \in Keyboards

SpecDefensive == (Init \/ InitIncompleteDraft) /\ [][Next]_vars

\* this step is handleAvatarSelection, entered by a click on a portrait
AvatarPicked == ops' = ops + 1 /\ last'.op = "avatar"

\* C20: the Profile is always null or complete (selectedAvatarDataUri,
\* userName, personalityTraits, topicPreferences and appearanceDescription all
\* set); handleAvatarSelection on a draft that lacks one of the four texts
\* leaves the Profile and the stored record alone, raises the "Setup
\* Incomplete" notice, empties the transcript, restores the default draft and
\* puts the wizard back at its greeting step, and no Profile appears while
\* that notice is up.
C20_ProfileComplete ==
    /\ [](appSettings # None =>
            (TextsSet(appSettings[1]) /\ appSettings[1].selectedAvatarDataUri # <<>>))
    /\ []((last.op = "avatar" /\ toasts # <<>> /\ toasts[1] = "Setup Incomplete")
            => appSettings = None)
    /\ [][(AvatarPicked /\ ~TextsSet(settingsDraft))
          => /\ UNCHANGED <<appSettings, storage>>
             /\ toasts' = <<"Setup Incomplete">>
             /\ messages' = <<>>
             /\ settingsDraft' = DEFAULT_SETTINGS_DRAFT
             /\ clientSetupStep' = "AWAITING_AI_GREETING"
             /\ setupVisualPhase' = "conversational_setup"
             /\ CallsTo("startConversation")' = {}]_vars

\* a portrait was picked with an incomplete draft: the wizard starts over without a Profile
C20_Witness ==
    /\ last.op = "avatar" /\ toasts = <<"Setup Incomplete">>
    /\ appSettings = None /\ storage = Absent
    /\ clientSetupStep = "AWAITING_AI_GREETING" /\ messages = <<>>
    /\ settingsDraft = DEFAULT_SETTINGS_DRAFT

----------------------------------------------------------------------------
(* Voice selection *)

\* a step of handleVoiceSelected up to its first await (or to its end)
VoicePicked == ops' = ops + 1 /\ last'.op = "voiceSelected"

\* a profile with an avatar exists
HasAvatar == appSettings # None /\ appSettings[1].selectedAvatarDataUri # <<>>

\* C21: when a profile with an avatar exists, handleVoiceSelected(v) writes v
\* into the profile's selectedVoiceName and nothing else of it, appends one
\* message after the unchanged earlier transcript, leaves the pending offer
\* alone, makes no generator call and starts no pending work, and ends at
\* CHAT_READY in the chat view.
C21_VoiceMidSession ==
    [][(VoicePicked /\ HasAvatar)
       => /\ appSettings' = Some([appSettings[1] EXCEPT !.selectedVoiceName = last'.text])
          /\ Len(messages') = Len(messages) + 1
          /\ SubSeq(messages', 1, Len(messages)) = messages
          /\ pendingProactiveSelfie' = pendingProactiveSelfie
          /\ calls' = <<>>
          /\ tasks' = tasks
          /\ ~isAiResponding'
          /\ clientSetupStep' = "CHAT_READY"
          /\ setupVisualPhase' = "chat_ready"]_vars

\* a voice was picked mid-session while an offer was pending
C21_Witness ==
    /\ last.op = "voiceSelected" /\ last.text = Lit("<voice>")
    /\ last.step = "SELECTING_VOICE"
    /\ HasAvatar /\ appSettings[1].selectedVoiceName = Lit("<voice>")
    /\ appSettings[1].userName # <<>>
    /\ pendingProactiveSelfie # None
    /\ Len(messages) > 2
    /\ clientSetupStep = "CHAT_READY" /\ tasks = <<>>

\* handleVoiceSelected has run to its end after awaiting getSetupPrompt
VoiceAnswered ==
    /\ \E i \in DOMAIN tasks : tasks[i].op = "voiceSelected"
    /\ last'.op = "voiceSelected" /\ last'.results # <<>>
    /\ Len(tasks') < Len(tasks)

\* C22: when no profile exists, handleVoiceSelected(v) records v in the draft
\* and ends at AWAITING_USER_APPEARANCE in the chat view with one assistant
\* question appended to the transcript.
C22_AsStated ==
    /\ [][(VoicePicked /\ ~HasAvatar)
          => /\ settingsDraft' = [settingsDraft EXCEPT !.selectedVoiceName = last'.text]
             /\ setupVisualPhase' = "conversational_setup"]_vars
    /\ [][VoiceAnswered
          => /\ settingsDraft'.selectedVoiceName = last'.text
             /\ clientSetupStep' = "AWAITING_USER_APPEARANCE"
             /\ setupVisualPhase' = "conversational_setup"
             /\ Len(messages') = Len(messages) + 1
             /\ messages'[Len(messages')].sender = "ai"
             /\ messages'[Len(messages')].text # <<>>]_vars

\* what does hold: the draft and the view as stated, and the step and the
\* question whenever getSetupPrompt returned
C22_WhenPromptReturns ==
    /\ [][(VoicePicked /\ ~HasAvatar)
          => /\ settingsDraft' = [settingsDraft EXCEPT !.selectedVoiceName = last'.text]
             /\ setupVisualPhase' = "conversational_setup"]_vars
    /\ [][VoiceAnswered
          => /\ settingsDraft'.selectedVoiceName = last'.text
             /\ setupVisualPhase' = "conversational_setup"
             /\ IF last'.results[1].threw
                THEN /\ messages' = messages
                     /\ clientSetupStep' = clientSetupStep
                     /\ toasts' = Append(toasts, "Error")
                ELSE /\ clientSetupStep' = "AWAITING_USER_APPEARANCE"
                     /\ Len(messages') = Len(messages) + 1
                     /\ messages'[Len(messages')].sender = "ai"
                     /\ messages'[Len(messages')].text # <<>>]_vars

\* getSetupPrompt threw after a first-run voice pick: the wizard is still at
\* SELECTING_VOICE, in the chat view, with no question asked
C22_Stuck ==
    /\ last.op = "voiceSelected" /\ last.results # <<>> /\ last.results[1].threw
    /\ appSettings = None /\ tasks = <<>> /\ ~isAiResponding
    /\ clientSetupStep = "SELECTING_VOICE"
    /\ setupVisualPhase = "conversational_setup"
    /\ settingsDraft.selectedVoiceName = last.text

----------------------------------------------------------------------------
(* The transcript *)

\* s is an initial part of t
IsPrefix(s, t) == Len(s) <= Len(t) /\ SubSeq(t, 1, Len(s)) = s

\* C23: every step that is not part of a /start reset leaves the previous
\* transcript as a prefix of the new one.
C23_AsStated ==
    [][last'.op # "start" => IsPrefix(messages, messages')]_vars

\* what does hold: the transcript only grows except in /start, in the end of
\* handleAvatarSelection and in the catch block of handleSendMessage during setup
C23_ExceptAvatarAndCatch ==
    [][(/\ last'.op \notin {"start", "avatar"}
        /\ ~(last'.results # <<>> /\ last'.step # "CHAT_READY"
             /\ \E k \in DOMAIN last'.results : last'.results[k].threw))
       => IsPrefix(messages, messages')]_vars

\* C24: every message of the transcript has a text or an imageUrl, whatever
\* the generator calls returned.
C24_NoEmptyMessage ==
    \A k \in DOMAIN messages : messages[k].text # <<>> \/ messages[k].imageUrl # <<>>

\* the step prompt handed over no aiResponse during the wizard, and the
\* transcript shows the fallback text of the flow after the user's answer
C24_Witness ==
    /\ last.op = "setup" /\ last.results # <<>> /\ ~last.results[1].threw
    /\ Len(messages) > 2
    /\ messages[Len(messages)] = AiText(getSetupPromptFlow(last.step, <<>>))
    /\ messages[Len(messages) - 1].sender = "user"
    /\ \A k \in DOMAIN messages : messages[k].text # <<>>

----------------------------------------------------------------------------
(* One operation at a time *)

\* the handlers started by the user that are waiting for a generator call
UserTasks == {i \in DOMAIN tasks : tasks[i].op \notin {"load", "effect"}}

\* one of the three busy flags is set
Busy == isAiResponding \/ isGeneratingSelfie \/ isGeneratingPhotoshoot

\* C25: at most one handler started by the user is in flight, some busy flag
\* is set while it is, and no chat submission, selfie-button request or picker
\* action starts a handler while isAiResponding, isGeneratingSelfie or
\* isGeneratingPhotoshoot is set.
C25_OneAtATime ==
    /\ [](Cardinality(UserTasks) <= 1)
    /\ [](UserTasks # {} => Busy)
    /\ [][ops' = ops + 1 => (~Busy /\ UserTasks = {})]_vars

\* a chat turn is waiting for the selfie it decided to send; both flags are up
C25_Witness ==
    /\ UserTasks # {} /\ isAiResponding /\ isGeneratingSelfie
    /\ clientSetupStep = "CHAT_READY" /\ ops > 1

----------------------------------------------------------------------------
(* generateAppearanceOptions *)

\* the outcomes of generateAppearanceOptions the last handler has seen
PortraitResults ==
    IF last.op # "setup" THEN {}
    ELSE {last.results[k] :
            k \in {j \in DOMAIN last.results : "succeeded" \in DOMAIN last.results[j]}}

\* C26: generateAppearanceOptions fails exactly when prompt derivation fails,
\* returns another count than 4, or every image call fails; otherwise it
\* returns the portraits that were generated.
C26_AsStated ==
    \A r \in PortraitResults :
        /\ r.threw <=> (r.prompts # "four" \/ r.succeeded = {})
        /\ ~r.threw => Len(r.value) = Cardinality(r.succeeded)

\* what does hold: the operation fails unless all four images were generated
C26_AllOrNothing ==
    \A r \in PortraitResults :
        /\ r.threw <=> (r.prompts # "four" \/ r.succeeded # 1..4)
        /\ ~r.threw => r.value = [i \in 1..4 |-> Portrait(i)]

\* three of the four image calls returned a portrait and the operation threw
C26_PartialThrows ==
    \E r \in PortraitResults : r.prompts = "four" /\ r.succeeded = {1, 3, 4} /\ r.threw

----------------------------------------------------------------------------
(* The command router *)

\* the characters of s before its first white space
RECURSIVE FirstToken(_)
FirstToken(s) ==
    IF s = <<>> \/ Head(s) \in WhiteSpace THEN <<>>
    ELSE <<Head(s)>> \o FirstToken(Tail(s))

CommandWords == {Chars("/start"), Chars("/voice"), Chars("/repeat"), Chars("/photo")}
CommandOps == {"start", "voice", "repeat", "photo"}

\* C27: a message whose first token is /start, /voice, /repeat or /photo in
\* any letter case is handled by the command router: it is not taken as a
\* setup answer or as the reply to a pending offer, and no continueConversation
\* call is made for it.
C27_AsStated ==
    [][(Submitted /\ FirstToken(ToLowerCase(last'.text)) \in CommandWords)
       => /\ last'.op \in CommandOps
          /\ last'.op \notin {"setup", "accepted", "declined", "chat"}
          /\ CallsTo("continueConversation")' = {}]_vars

\* what does hold: the router takes the messages that are /start, /voice or
\* /repeat and nothing more, or that begin with /photo and a space
C27_ExactCommands ==
    [][Submitted
       => LET lower == ToLowerCase(last'.text)
          IN  (last'.op \in CommandOps)
                <=> (\/ lower \in {Chars("/start"), Chars("/voice"), Chars("/repeat")}
                     \/ StartsWith(lower, Chars("/photo ")))]_vars

\* a bare /photo typed at the name question has become the user's name
C27_PhotoAsName ==
    /\ last.op = "setup" /\ last.text = Chars("/photo")
    /\ last.step = "AWAITING_USER_NAME"
    /\ settingsDraft.userName = Chars("/photo")

\* the message is /help in any letter case
IsHelp(trimmedMessage) == ToLowerCase(trimmedMessage) = Chars("/help")

\* C28: /help is handled as a command in every state: something is displayed
\* for it (an assistant message or a notice), it is not taken as a setup answer
\* or as the reply to a pending offer, and no text generator call is made.
C28_AsStated ==
    [][(Submitted /\ IsHelp(last'.text))
       => /\ last'.op \notin {"setup", "accepted", "declined", "chat"}
          /\ calls' = <<>>
          /\ settingsDraft' = settingsDraft
          /\ pendingProactiveSelfie' = pendingProactiveSelfie
          /\ \/ toasts' # <<>>
             \/ /\ Len(messages') = Len(messages) + 1
                /\ messages'[Len(messages')].sender = "ai"]_vars

\* what the code does with /help: it is a message like any other
C28_HelpIsNoCommand ==
    [][(Submitted /\ IsHelp(last'.text))
       => /\ last'.op \in {"setup", "accepted", "declined", "chat", "ignored"}
          /\ toasts' = <<>>
          /\ Len(messages') > Len(messages)
          /\ messages'[Len(messages) + 1] = UserText(last'.text)]_vars

\* /help typed at the name question has become the user's name
C28_HelpAsName ==
    /\ last.op = "setup" /\ IsHelp(last.text)
    /\ last.step = "AWAITING_USER_NAME"
    /\ settingsDraft.userName = Chars("/help")

----------------------------------------------------------------------------
(* Failures of the generator calls *)

\* this step ends a handler one of whose generator calls threw
SettledAfterThrow ==
    /\ Len(tasks') < Len(tasks)
    /\ last'.results # <<>>
    /\ \E k \in DOMAIN last'.results : last'.results[k].threw

\* C29: every handler runs to its end whatever its generator calls do: a
\* handler whose call threw leaves the set of waiting handlers, and once no
\* handler is waiting none of the busy flags it raised is still up.
C29_HandlersComplete ==
    /\ [](tasks = <<>> => ~Busy)
    /\ [][SettledAfterThrow
          => /\ Len(tasks') = Len(tasks) - 1
             /\ tasks' = <<>> => ~Busy']_vars

\* startConversation threw after a portrait was picked: the handler has ended,
\* the flags are down and the chat is open
C29_Witness ==
    /\ last.op = "avatar" /\ last.results # <<>> /\ last.results[1].threw
    /\ tasks = <<>> /\ ~Busy
    /\ toasts # <<>> /\ toasts[Len(toasts)] = "Error"
    /\ clientSetupStep = "CHAT_READY" /\ appSettings # None

\* the step has put an assistant text at the end of the transcript
NoticeAdded ==
    /\ messages' # <<>> /\ messages' # messages
    /\ messages'[Len(messages')].sender = "ai"
    /\ messages'[Len(messages')].text # <<>>
    /\ messages'[Len(messages')].imageUrl = <<>>

\* C30: whenever a generator call of an operation fails, the transcript at the
\* end of that operation ends with an assistant message added for the failure,
\* in the wizard as well as in chat.
C30_AsStated ==
    [][SettledAfterThrow => NoticeAdded]_vars

\* what does hold: the notice is there after a failure in the initial load, in
\* handleAvatarSelection and in every handler that ran at CHAT_READY
C30_InChatOnly ==
    [][(SettledAfterThrow /\ (last'.op \in {"load", "avatar"} \/ last'.step = "CHAT_READY"))
       => NoticeAdded]_vars

\* the greeting call threw: a toast was raised and the transcript is empty
C30_SilentGreeting ==
    /\ last.op = "effect" /\ last.results # <<>> /\ last.results[1].threw
    /\ messages = <<>> /\ toasts # <<>> /\ tasks = <<>>
    /\ clientSetupStep = "AWAITING_AI_GREETING"

\* a setup prompt threw: the apology was added and removed again with the rest
C30_ApologyErased ==
    /\ last.op = "setup" /\ last.results # <<>> /\ last.results[1].threw
    /\ last.before # <<>> /\ messages = <<>> /\ tasks = <<>>

----------------------------------------------------------------------------
(* The greeting after /start *)

\* the greeting requests that are waiting: the one of /start and the one of the effect
GreetingTasks == {i \in DOMAIN tasks : tasks[i].op \in {"start", "effect"}}

\* this step ends a greeting request
GreetingSettled == GreetingTasks # {} /\ GreetingTasks' = {} /\ last'.op \in {"start", "effect"}

\* C31: the greeting request that follows /start (made by the handler itself
\* or by the greeting effect) ends with exactly one greeting in the transcript,
\* the wizard at AWAITING_USER_NAME and the chat input enabled; the two
\* requests are never both made.
C31_AsStated ==
    /\ [](Cardinality(GreetingTasks) <= 1)
    /\ [][GreetingSettled
          => /\ Len(messages') = 1
             /\ messages'[1].sender = "ai" /\ messages'[1].text # <<>>
             /\ clientSetupStep' = "AWAITING_USER_NAME"
             /\ ChatShown' /\ ~Busy']_vars

\* what does hold: never two greeting requests, never two greetings, and the
\* stated end whenever the request returned
C31_WhenGreetingReturns ==
    /\ [](Cardinality(GreetingTasks) <= 1)
    /\ []((clientSetupStep = "AWAITING_USER_NAME" /\ tasks = <<>>) => Len(messages) = 1)
    /\ [][GreetingSettled
          => /\ ChatShown' /\ ~Busy'
             /\ IF last'.results[1].threw
                THEN messages' = <<>> /\ clientSetupStep' = "AWAITING_AI_GREETING"
                ELSE /\ Len(messages') = 1
                     /\ messages'[1].sender = "ai" /\ messages'[1].text # <<>>
                     /\ clientSetupStep' = "AWAITING_USER_NAME"]_vars

\* the greeting request made by /start threw: nothing is shown, the transcript
\* is empty and the wizard waits for a greeting no effect will ask for
C31_NoGreeting ==
    /\ last.op = "start" /\ last.results # <<>> /\ last.results[1].threw
    /\ messages = <<>> /\ tasks = <<>> /\ ~effectDue
    /\ clientSetupStep = "AWAITING_AI_GREETING" /\ toasts = <<"New Chat Started">>

----------------------------------------------------------------------------
(* The reply to a pending offer *)

\* the reply holds a negative keyword as a word
NegativeWord(trimmedMessage) ==
    \E i \in 1..Len(negativeKeywords) :
        ArrayIncludes(SplitWords(ToLowerCase(trimmedMessage)), negativeKeywords[i])

\* this step is the submission of a reply to a pending offer
OfferReplied ==
    /\ Submitted /\ last'.op \notin CommandOps
    /\ pendingProactiveSelfie # None /\ appSettings # None

\* C32: the reply to a pending offer is taken as accepted iff one of its
\* words is an affirmative keyword and none of its words is a negative
\* keyword; every other reply is taken as declined.
C32_AsStated ==
    [][OfferReplied
       => /\ last'.op \in {"accepted", "declined"}
          /\ last'.op = "accepted"
               <=> (AffirmativeToken(last'.text) /\ ~NegativeWord(last'.text))]_vars

\* what does hold: the negative keywords are looked for anywhere in the reply,
\* inside words too
C32_NegativeSubstrings ==
    [][OfferReplied
       => /\ last'.op \in {"accepted", "declined"}
          /\ last'.op = "accepted"
               <=> (AffirmativeToken(last'.text) /\ ~NegativeToken(last'.text))]_vars

\* "ok now" was taken as declining the offer
C32_NowDeclines ==
    /\ last.op = "declined" /\ last.text = Chars("ok now")
    /\ AffirmativeToken(last.text) /\ ~NegativeWord(last.text)

----------------------------------------------------------------------------
(* The order of the wizard *)

\* the place of a step in the wizard
StepRank(step) ==
    CASE step = "AWAITING_AI_GREETING" -> 0
      [] step = "AWAITING_USER_NAME" -> 1
      [] step = "AWAITING_USER_PERSONALITY" -> 2
      [] step = "AWAITING_USER_TOPICS" -> 3
      [] step = "AWAITING_USER_VOICE_DECISION" -> 4
      [] step = "SELECTING_VOICE" -> 5
      [] step = "AWAITING_USER_APPEARANCE" -> 6
      [] step = "AWAITING_AI_CONFIRMATION" -> 7
      [] step = "GENERATING_APPEARANCE" -> 7
      [] step = "SELECTING_AVATAR" -> 8
      [] OTHER -> 9

\* from `from` the wizard may go to `to`: the next step, appearance straight
\* after the voice decision, the picker straight after the appearance reply
\* (confirmation and generation happen inside one handler), or back to the greeting
InOrder(from, to) ==
    \/ StepRank(to) = StepRank(from) + 1
    \/ StepRank(from) = 4 /\ StepRank(to) = 6
    \/ StepRank(from) = 6 /\ StepRank(to) = 8
    \/ StepRank(to) = 0

\* C33: during first-run setup every change of step follows the order of the
\* wizard; apart from restarts, the only step that can be left out is the
\* voice selection.
C33_AsStated ==
    [][(appSettings = None /\ last'.op # "load" /\ clientSetupStep' # clientSetupStep)
       => InOrder(clientSetupStep, clientSetupStep')]_vars

\* what does hold: the order is kept by every step but the /voice command
C33_ExceptVoiceCommand ==
    [][(appSettings = None /\ last'.op \notin {"load", "voice"}
        /\ clientSetupStep' # clientSetupStep)
       => InOrder(clientSetupStep, clientSetupStep')]_vars

\* /voice at the name question and a pick in the selector have brought the
\* wizard to the appearance question with the default name, personality and topics
C33_Skipped ==
    /\ appSettings = None /\ clientSetupStep = "AWAITING_USER_APPEARANCE"
    /\ last.op = "voiceSelected" /\ tasks = <<>>
    /\ settingsDraft.userName = DEFAULT_USERNAME
    /\ settingsDraft.personalityTraits = DEFAULT_PERSONALITY_TRAITS
    /\ settingsDraft.topicPreferences = DEFAULT_TOPIC_PREFERENCES

----------------------------------------------------------------------------
(* The selfie sent within a turn *)

\* this step ends a turn whose continueConversation returned IMPLICIT_SELFIE_NOW
\* with a context
ImplicitSelfieTurn ==
    /\ Len(tasks') < Len(tasks)
    /\ last'.op \in {"chat", "declined"}
    /\ ~last'.results[1].threw
    /\ last'.results[1].value.decision = "IMPLICIT_SELFIE_NOW"
    /\ last'.results[1].value.selfieContext # <<>>

\* the turn made exactly one generateSelfie request, after appending the reply,
\* with the avatar of the profile as base image and `steering` as its text
OneSelfieRequest(steering) ==
    /\ Cardinality({k \in DOMAIN calls' : calls'[k].fn = "generateSelfie"}) = 1
    /\ \A k \in DOMAIN calls' :
          calls'[k].fn = "generateSelfie"
          => /\ calls'[k].baseImageDataUri = appSettings[1].selectedAvatarDataUri
             /\ calls'[k].userSelfieRequestText = steering
    /\ Len(messages') = Len(messages) + 2
    /\ messages'[Len(messages) + 1] = AiText(last'.results[1].value.responseText)

\* C34: a turn whose decision is IMPLICIT_SELFIE_NOW with context c makes
\* exactly one generateSelfie request, after the reply text is appended, with
\* the profile's avatar as baseImageDataUri and c as userSelfieRequestText.
C34_AsStated ==
    [][ImplicitSelfieTurn => OneSelfieRequest(last'.results[1].value.selfieContext)]_vars

\* what does hold: the request is as stated but carries the reply text of the
\* assistant as userSelfieRequestText
C34_SteeredByReply ==
    [][ImplicitSelfieTurn => OneSelfieRequest(last'.results[1].value.responseText)]_vars

\* a selfie was requested within a turn with the assistant's reply as its text
C34_ReplyAsRequest ==
    /\ last.op = "chat" /\ Len(last.results) = 2 /\ ~last.results[1].threw
    /\ last.results[1].value.decision = "IMPLICIT_SELFIE_NOW"
    /\ \E k \in DOMAIN calls :
          /\ calls[k].fn = "generateSelfie"
          /\ calls[k].userSelfieRequestText = last.results[1].value.responseText
          /\ calls[k].userSelfieRequestText # last.results[1].value.selfieContext

----------------------------------------------------------------------------
(* The history sent with a turn *)

\* this step submits a message that is sent to continueConversation
TurnSent == Submitted /\ last'.op \in {"chat", "declined"}

\* the last n entries of the transcript
LastEntries(n) == SubSeq(messages, Len(messages) - n + 1, Len(messages))

\* C35: the chatHistory of a turn is made of the most recent entries that
\* precede the user's message, oldest first, up to and including the entry
\* just before that message, and without the message itself.
C35_AsStated ==
    [][TurnSent
       => \A k \in DOMAIN calls' :
             calls'[k].fn = "continueConversation"
             => \E n \in (IF messages = <<>> THEN {0} ELSE 1..Len(messages)) :
                   calls'[k].chatHistory = Serialize(LastEntries(n), appSettings[1].userName)]_vars

\* what does hold: the window ends one entry earlier; the entry just before
\* the user's message is left out
C35_WithoutLastEntry ==
    [][TurnSent
       => /\ Cardinality({k \in DOMAIN calls' : calls'[k].fn = "continueConversation"}) = 1
          /\ \A k \in DOMAIN calls' :
                calls'[k].fn = "continueConversation"
                => calls'[k].chatHistory
                     = Serialize(SubSeq(messages, 1, Len(messages) - 1),
                                 appSettings[1].userName)]_vars

\* the first message after the welcome was sent with an empty history
C35_WelcomeLeftOut ==
    /\ last.op = "chat" /\ Len(last.before) = 1 /\ last.before[1].sender = "ai"
    /\ \E k \in DOMAIN calls :
          calls[k].fn = "continueConversation" /\ calls[k].chatHistory = <<>>

----------------------------------------------------------------------------
(* Quiescent states *)

\* no handler is waiting, no effect is due and the initial load is over
Quiescent == tasks = <<>> /\ ~effectDue /\ ~isInitializing

\* the chat input is rendered and lets a submission through (page.tsx 646-650,
\* 737-741; ChatWindow hands only isSendingMessage on to ChatInput)
ChatInputEnabled ==
    /\ \/ setupVisualPhase = "conversational_setup"
       \/ setupVisualPhase = "chat_ready" /\ appSettings # None
    /\ ~Busy

\* the buttons of the voice selector are rendered and enabled (page.tsx 678-685)
VoicePickerEnabled == setupVisualPhase = "voice_selection" /\ ~isAiResponding

\* the portraits are rendered and clickable (page.tsx 700-712)
AvatarPickerEnabled ==
    setupVisualPhase = "appearance_selection" /\ appearanceOptions # <<>> /\ ~Busy

PhaseOf(step) ==
    CASE step = "SELECTING_VOICE" -> "voice_selection"
      [] step = "SELECTING_AVATAR" -> "appearance_selection"
      [] step = "CHAT_READY" -> "chat_ready"
      [] OTHER -> "conversational_setup"

\* C37: whenever no operation is in flight, setupVisualPhase is the phase of
\* clientSetupStep: voice_selection iff SELECTING_VOICE, appearance_selection
\* iff SELECTING_AVATAR, chat_ready iff CHAT_READY, conversational_setup for
\* the steps driven by chat.
C37_AsStated == Quiescent => setupVisualPhase = PhaseOf(clientSetupStep)

\* what does hold: the phase goes with the step except after a first-run
\* voice pick whose getSetupPrompt threw
C37_ExceptFailedVoicePick ==
    (Quiescent /\ setupVisualPhase # PhaseOf(clientSetupStep))
    => /\ clientSetupStep = "SELECTING_VOICE"
       /\ setupVisualPhase = "conversational_setup"
       /\ appSettings = None

----------------------------------------------------------------------------
(* The busy flags are lowered *)

\* what happens without the user: the effects run and the pending calls settle
Settles ==
    \/ loadStateAndInitiateSetup
    \/ runAISetupStep
    \/ \E i \in TaskSlots :
          \/ ResolveLoad(i) \/ ResolveEffect(i) \/ ResolveStart(i) \/ ResolvePhoto(i)
          \/ ResolveAccepted(i) \/ ResolveDeclined(i) \/ ResolveChat(i) \/ ResolveSetup(i)
          \/ ResolveVoiceSelected(i) \/ ResolveAvatar(i) \/ ResolveSelfie(i)

\* every promise settles and every due effect runs
SpecLive == Spec /\ WF_vars(Settles)

\* C38: each of isAiResponding, isGeneratingSelfie and isGeneratingPhotoshoot,
\* once raised, is lowered again whatever the outcome of the calls, and all
\* three are down whenever no operation is in flight.
C38_FlagsCleared ==
    /\ isAiResponding ~> ~isAiResponding
    /\ isGeneratingSelfie ~> ~isGeneratingSelfie
    /\ isGeneratingPhotoshoot ~> ~isGeneratingPhotoshoot
    /\ [](Quiescent => (~isAiResponding /\ ~isGeneratingSelfie /\ ~isGeneratingPhotoshoot))

\* generatePhotoshootImages threw and the photoshoot flag is down again
C38_Witness ==
    /\ last.op = "photo" /\ last.results # <<>> /\ last.results[1].threw
    /\ Quiescent /\ ~isGeneratingPhotoshoot /\ ~isAiResponding /\ ~isGeneratingSelfie

-----------------------------------------------------------------------------
(* C39: the initial load (page.tsx 100-161)                                 *)

\* the mount effect runs its synchronous part
LoadRan == clientSetupStep = "INITIAL_LOAD" /\ last'.op = "load" /\ last'.results = <<>>

\* the startConversation call of the mount effect settles
LoadSettled == last.op = "load" /\ last.results = <<>> /\ last'.results # <<>>

\* the text is the welcome of the stored user or the fallback of the catch
WelcomeOrFallback(t, p) ==
    \/ IsPrefix(Lit("Welcome back, ") \o p.userName \o Lit("! "), t)
    \/ t = Lit("I'm having a little trouble starting our chat right now. Let's try again in a moment!")

\* C39: on the initial load a stored record whose five required fields are
\* non-empty becomes the Profile and the draft, the step goes straight to
\* CHAT_READY with the chat_ready phase and no setup prompt is requested, and
\* when the startConversation call settles the transcript is exactly one
\* assistant message, the welcome of the stored user or the fallback; a
\* missing, unparsable or incomplete record leaves no record in the store (a
\* rejected item is removed), the Profile null, the draft the default one and
\* the step AWAITING_AI_GREETING in the conversational phase.
C39_InitialLoad ==
    [][/\ (LoadRan /\ storage.kind = "json" /\ IsComplete(storage.value))
            => /\ appSettings' = Some(storage.value)
               /\ settingsDraft' = storage.value
               /\ storage'.kind = "json" /\ storage'.value = storage.value
               /\ clientSetupStep' = "CHAT_READY"
               /\ setupVisualPhase' = "chat_ready"
               /\ messages' = <<>> /\ isInitializing'
               /\ Len(calls') = 1 /\ calls'[1].fn = "startConversation"
       /\ (LoadRan /\ ~(storage.kind = "json" /\ IsComplete(storage.value)))
            => /\ appSettings' = None
               /\ storage'.kind # "json"
               /\ (storage.kind \in {"json", "garbage"} => storage' = Absent)
               /\ settingsDraft' = DEFAULT_SETTINGS_DRAFT
               /\ clientSetupStep' = "AWAITING_AI_GREETING"
               /\ setupVisualPhase' = "conversational_setup"
               /\ messages' = <<>> /\ tasks' = <<>>
       /\ LoadSettled
            => /\ appSettings # None /\ appSettings' = appSettings
               /\ Len(messages') = 1
               /\ messages'[1].sender = "ai"
               /\ WelcomeOrFallback(messages'[1].text, appSettings[1])
               /\ clientSetupStep' = "CHAT_READY"
               /\ setupVisualPhase' = "chat_ready"
               /\ ~isInitializing' /\ ~isAiResponding'
               /\ \A k \in DOMAIN calls' : calls'[k].fn # "getSetupPrompt"
      ]_vars

\* the stored user was welcomed back and nothing else has happened yet
C39_Witness ==
    /\ last.op = "load" /\ last.results # <<>> /\ ~last.results[1].threw
    /\ clientSetupStep = "CHAT_READY" /\ appSettings # None /\ Len(messages) = 1

\* a record without avatar was found and removed, and the wizard is at its start
C39_Removed ==
    /\ last.op = "load" /\ last.results = <<>> /\ storage = Absent
    /\ clientSetupStep = "AWAITING_AI_GREETING" /\ appSettings = None

-----------------------------------------------------------------------------
(* C40: the draft never lacks a text (constants.ts 30-37; page.tsx 341-378, *)
(* 507-527)                                                                 *)

\* a reply of the user, not a default, is in the draft
DraftHasReply ==
    \/ settingsDraft.userName # DEFAULT_SETTINGS_DRAFT.userName
    \/ settingsDraft.personalityTraits # DEFAULT_SETTINGS_DRAFT.personalityTraits
    \/ settingsDraft.topicPreferences # DEFAULT_SETTINGS_DRAFT.topicPreferences
    \/ settingsDraft.appearanceDescription # DEFAULT_SETTINGS_DRAFT.appearanceDescription

\* C40: in every reachable state the userName, personalityTraits,
\* topicPreferences and appearanceDescription of the draft are non-empty, and
\* the "Setup Incomplete" toast of handleAvatarSelection's incomplete-draft
\* branch has not been shown by the last handler.
C40_DraftTextsSet ==
    /\ settingsDraft.userName # <<>>
    /\ settingsDraft.personalityTraits # <<>>
    /\ settingsDraft.topicPreferences # <<>>
    /\ settingsDraft.appearanceDescription # <<>>
    /\ \A k \in DOMAIN toasts : toasts[k] # "Setup Incomplete"

\* an avatar was picked with a draft that holds a reply of the user, no toast
\* was shown and the Profile took its user name from the draft
C40_Witness ==
    /\ last.op = "avatar" /\ last.results # <<>>
    /\ DraftHasReply /\ toasts = <<>>
    /\ appSettings # None /\ appSettings[1].userName = settingsDraft.userName

====
